---- MODULE Spec2Model ----
(***************************************************************************)
(* Verification model of Protocol-Lattice/agentic-tui.                     *)
(*                                                                         *)
(* SpecLock    : the directory lock (acquireDirLock) as driven by          *)
(*               model.withCodegenLock, several calls from several TUI     *)
(*               instances sharing one lock path.                          *)
(*                                                                         *)
(* SpecBuild   : one phase of the step builder (runStepBuilderPhase): the   *)
(*               file workers, saveCodeBlocks, and the Update handler of   *)
(*               the TUI that receives the progress messages.              *)
(* SpecTracker : the change tracker (ChangeTracker.Snapshot, Record) and   *)
(*               WriteCodeBlocks over a small workspace.                   *)
(*                                                                         *)
(* Time.  A sleep of acquireDirLock lasts Step ms or longer, and a caller  *)
(* may be delayed for any time between two of its steps, so the timers of  *)
(* different callers fire independently.  The age of the lock directory is *)
(* compared with ten minutes only; the step TimePasses lets more than ten  *)
(* minutes pass at any moment, the sleeps in between are not added to it.  *)
(***************************************************************************)
EXTENDS Integers, Sequences, FiniteSets, TLC

(***************************************************************************)
(* Program constants.                                                      *)
(***************************************************************************)
\* step := 120 * time.Millisecond
Step == 120
\* hook threshold: wait < 500*time.Millisecond
WarnAfter == 500
\* waited < 2*time.Second / waited >= 2*time.Second
ReclaimWait == 2000
\* time.Since(info.ModTime()) > 10*time.Minute
StaleAge == 600000

None == "none"

\* the calls of withCodegenLock, each made by its own goroutine, and the TUI
\* instance (one model value, one process) that makes each
Callers == {"c1", "c2", "c3"}
Instances == {"i1", "i2"}
instOf == [g \in Callers |-> IF g = "c3" THEN "i2" ELSE "i1"]

VARIABLES
    \* ---- withCodegenLock / acquireDirLock ----
    pc,            \* position of each caller
    waited,        \* acquireDirLock: waited
    warned,        \* withCodegenLock: warned
    release,       \* acquireDirLock returned a release function, not yet called
    fnRuns,        \* runs of fn in the call
    codegenLocal,  \* m.codegenLocal: holder of the in-process mutex
    lockDir,       \* m.lockDir ("" = no cross-process lock)
    ctxDone,       \* m.ctx is cancelled
    output,        \* m.output, as the sequence of lines this code appends
    dirExists,     \* the lock directory exists
    dirAge,        \* time.Since(info.ModTime()) of the lock directory, ms
    dirOwner,      \* the caller whose Mkdir created it
    \* ---- history of each call, for the properties ----
    heldFor,       \* ms since the caller acquired the lock
    lost,          \* the held lock's directory was removed by someone else
    ctxAtCall,     \* ctx was already cancelled when the call started
    outLen,        \* Len(m.output) when the call started
    blocker,       \* owner of the directory at the first failed Mkdir
    blockerGone,   \* that owner has called its release since
    blockRemoved   \* a directory in the caller's way has been removed since

lockVars == <<pc, waited, warned, release, fnRuns, codegenLocal, lockDir,
              ctxDone, output, dirExists, dirAge, dirOwner, heldFor, lost,
              ctxAtCall, outLen, blocker, blockerGone, blockRemoved>>

\* file workers of one runStepBuilderPhase (one per planned file)
Workers == {"w1", "w2"}
\* the instance that runs the step builder
Builder == "i1"

VARIABLES
    \* ---- runStepBuilderPhase / saveCodeBlocks / Update ----
    phasePc,       \* position of runStepBuilderPhase
    wpc,           \* position of each file worker
    wFences,       \* fences of the worker's response still to be saved
    wLoaded,       \* m.output as read by a pending m.output += of the worker
    nWrites,       \* files the worker's saveCodeBlocks has written
    results,       \* the results channel
    msgs,          \* progress messages sent to the program, not yet handled
    updLoaded,     \* m.output as read by the pending m.output += of Update
    thinking,      \* m.thinking
    mutatedBy      \* the threads that have assigned a field of the model

buildVars == <<phasePc, wpc, wFences, wLoaded, nWrites, results, msgs,
               updLoaded, thinking, mutatedBy>>

\* relative paths of the workspace
Paths == {"a.go", "b.go"}

VARIABLES
    \* ---- ChangeTracker / WriteCodeBlocks ----
    prev,          \* ChangeTracker.prev
    seqno,         \* ChangeTracker.seqno
    disk,          \* the files of the workspace
    blocks,        \* WriteCodeBlocks: the fences not yet processed
    actions,       \* WriteCodeBlocks: the actions so far
    snap,          \* the last tracker operation, its path, what Snapshot returned
    \* ---- history, for the properties ----
    lastRec,       \* data of the last Record of a path
    known,         \* the content last recorded or read for a path
    io,            \* what os.MkdirAll and os.WriteFile did for the last fence
    lastFence,     \* the fence of the turn just before, if it was saved alone
    same           \* the turn under way repeats the fence of the turn before

trackerVars == <<prev, seqno, disk, blocks, actions, snap, lastRec, known,
                 io, lastFence, same>>

VARIABLES
    \* ---- the fences of one response (extractCodeBlocks) ----
    fences,        \* the fences the response is made of (history)
    response,      \* the response, as its lines
    found,         \* the blocks extractCodeBlocks returned, not yet processed
    fidx,          \* the index of the loop over the blocks
    made,          \* the actions so far
    fpc            \* where WriteCodeBlocks is: "start", "loop", "done"

fenceVars == <<fences, response, found, fidx, made, fpc>>

\* the runs of RunPlanner
Runs == {"r1", "r2"}

VARIABLES
    \* ---- RunPlanner and the planner queue ----
    variant,       \* which RunPlanner the program is built with
    plannerQueue,  \* m.plannerQueue: the channel the field holds
    chans,         \* the channels made so far
    rpc,           \* where each run is
    site,          \* the call each run comes from
    planN,         \* len(steps) after the cap
    stepI,         \* the index of the loop over the steps, from 1
    prevErr,       \* steps[i].PrevRuntimeErr of the step under way
    result,        \* what the run returned
    \* ---- history, for the properties ----
    goal,          \* the goal last passed to RunHeadless
    ranFail,       \* the last failed run of the entrypoint: step and text
    attempts,      \* how many steps were passed to RunHeadless
    lastFail,      \* the last failure inside a step
    lastSent,      \* the last line given to safeSend
    genCalls       \* the model calls RunHeadless made for the step

plannerVars == <<variant, plannerQueue, chans, rpc, site, planN, stepI,
                 prevErr, result, goal, ranFail, attempts, lastFail,
                 lastSent, genCalls>>

VARIABLES
    \* ---- runStepBuilder ----
    sbPc,          \* where runStepBuilder is
    nSub,          \* len(subprompts)
    phase,         \* where the goroutine of each sub-goal is
    fwd,           \* the message the forwarding goroutine took from progCh
    \* ---- history, for the properties ----
    treeEmitted,   \* the final tree view was sent on progCh
    tuiComplete,   \* Update has received the stepBuildCompleteMsg
    lateProgress   \* Update received a progress message after it

stepVars == <<sbPc, nSub, phase, fwd, treeEmitted, tuiComplete, lateProgress>>

VARIABLES
    \* ---- the transcript file and its poll ----
    tfile,             \* the bytes of the transcript file
    tOutput,           \* m.output of each instance
    lastTranscriptSig, \* m.lastTranscriptSig of each instance
    syncMsg,           \* the transcriptSyncMsg on its way to Update
    quiet,             \* the instances have stopped making local changes
    \* ---- history, for the properties ----
    lastWriter,        \* the instance that wrote the file last
    writeFailed        \* a write of the file has failed

transcriptVars == <<tfile, tOutput, lastTranscriptSig, syncMsg, quiet,
                    lastWriter, writeFailed>>

VARIABLES
    \* ---- buildCodebaseContext ----
    entries,       \* the sizes of the walked files, in the order of the sort
    maxFiles,      \* the three caps
    maxTotalBytes,
    perFileLimit,
    included,      \* the entries taken so far (their places in entries)
    total,         \* the charged size
    bodies,        \* the length of the body of each file section written
    cpc            \* where the function is: "select", "read", "done"

contextVars == <<entries, maxFiles, maxTotalBytes, perFileLimit, included,
                 total, bodies, cpc>>

VARIABLES
    \* ---- extractJSON ----
    raw,           \* the answer of the model, as its tokens
    extracted      \* what extractJSON returned for it

jsonVars == <<raw, extracted>>

\* the prompts submitted in chat mode, in their order
ChatPrompts == {1, 2}

VARIABLES
    \* ---- the planner queue and its flusher ----
    qbuf,          \* the lines in the buffer of m.plannerQueue
    qclosed,       \* m.plannerQueue is closed
    qrun,          \* the prompt whose queue m.plannerQueue is (0: NewModel's)
    running,       \* the prompt whose RunPlanner Update is inside (0: none)
    nLines,        \* the lines the run of each prompt sends in all
    sentK,         \* the lines the run under way has given to safeSend
    ticks,         \* the plannerTickMsg on their way to Update
    chatLog,       \* the lines Update has appended to m.output
    returned,      \* the prompts whose run has returned
    seenClosed     \* the last plannerTickMsg found the queue closed

queueVars == <<qbuf, qclosed, qrun, running, nLines, sentK, ticks, chatLog,
               returned, seenClosed>>

\* the goroutines that call WriteCodeBlocks
Materializers == {"m1", "m2"}

VARIABLES
    \* ---- concurrent calls of WriteCodeBlocks ----
    mwPc,          \* where each call is
    mwFence,       \* the fence it is processing
    mwOld,         \* oldB, what Snapshot returned to it
    \* ---- history, for the properties ----
    written,       \* the paths os.WriteFile has written
    overlapped     \* two calls have been under way at the same time

writersVars == <<mwPc, mwFence, mwOld, written, overlapped>>

VARIABLES
    \* ---- the path of a materialized file ----
    wroot,         \* the workspace root, as its segments (an absolute path)
    directive,     \* the path of the fence's path directive, as its segments
    target,        \* the segments of the absolute path given to os.WriteFile
    via            \* the function that wrote

pathVars == <<wroot, directive, target, via>>

\* The chat view's thinking state
VARIABLES
    isThinking,    \* m.isThinking
    chatLabel,     \* m.thinking, the label beside the spinner
    chatPath,      \* the branch the last chat prompt took, None before it
    nChat,         \* the chat prompts submitted so far
    calls,         \* the UTCP commands running in their goroutines
    genMsgs,       \* the generateMsg values waiting for Update
    tickMsgs,      \* the plannerTickMsg values waiting for Update
    cqLines,       \* the lines buffered in m.plannerQueue
    cqClosed       \* m.plannerQueue is closed

chatVars == <<isThinking, chatLabel, chatPath, nChat, calls, genMsgs,
              tickMsgs, cqLines, cqClosed>>

\* The forwarding goroutine of runStepBuilder and its channel
VARIABLES
    fwdPc,         \* where the forwarding goroutine is: in its range, exited
    progClosed     \* the close(progCh) calls made so far

forwarderVars == <<fwdPc, progClosed>>

moreVars == <<transcriptVars, contextVars, jsonVars, queueVars, writersVars,
             pathVars, chatVars, forwarderVars>>

laterVars == <<fenceVars, plannerVars, stepVars, moreVars>>

vars == <<lockVars, buildVars, trackerVars, laterVars>>

notLock == <<buildVars, trackerVars, laterVars>>
notBuild == <<pc, waited, warned, release, fnRuns, codegenLocal, lockDir,
              ctxDone, dirExists, dirAge, dirOwner, heldFor, lost, ctxAtCall,
              outLen, blocker, blockerGone, blockRemoved, trackerVars,
              laterVars>>
notTracker == <<lockVars, buildVars, laterVars>>
notFence == <<lockVars, buildVars, trackerVars, plannerVars, stepVars,
             moreVars>>
notPlanner == <<lockVars, buildVars, trackerVars, fenceVars, stepVars,
               moreVars>>
notStep == <<lockVars, buildVars, trackerVars, fenceVars, plannerVars,
            moreVars>>
oldVars == <<lockVars, buildVars, trackerVars, fenceVars, plannerVars,
            stepVars>>

restWriters == <<transcriptVars, contextVars, jsonVars, queueVars,
                 pathVars, chatVars, forwarderVars>>

restQueue == <<transcriptVars, contextVars, jsonVars, writersVars,
               pathVars, chatVars, forwarderVars>>

restJson == <<transcriptVars, contextVars, queueVars, writersVars,
              pathVars, chatVars, forwarderVars>>

restContext == <<transcriptVars, jsonVars, queueVars, writersVars,
                 pathVars, chatVars, forwarderVars>>

restTranscript == <<contextVars, jsonVars, queueVars, writersVars,
                    pathVars, chatVars, forwarderVars>>

restPath == <<transcriptVars, contextVars, jsonVars, queueVars,
              writersVars, chatVars, forwarderVars>>

restChat == <<transcriptVars, contextVars, jsonVars, queueVars,
              writersVars, pathVars, forwarderVars>>

restForwarder == <<transcriptVars, contextVars, jsonVars, queueVars,
                   writersVars, pathVars, chatVars>>

notTranscript == <<oldVars, restTranscript>>

notContext == <<oldVars, restContext>>

notJson == <<oldVars, restJson>>

notQueue == <<oldVars, restQueue>>

notWriters == <<oldVars, restWriters>>

notPath == <<oldVars, restPath>>

notChat == <<oldVars, restChat>>

notForwarder == <<oldVars, restForwarder>>

dirVars == <<dirExists, dirAge, dirOwner>>
callHist == <<heldFor, lost, ctxAtCall, outLen, blocker, blockerGone,
              blockRemoved>>

(***************************************************************************)
(* Values.                                                                 *)
(***************************************************************************)
\* longest file content and fence body
MaxLen == 1
\* most fences in one response given to WriteCodeBlocks
MaxFences == 2
\* most fences in the response of one file worker
MaxWorkerFences == 1
\* most prompt turns (calls of BeginPrompt)
MaxPrompts == 2
\* most lines of a fence body, after its path line
MaxBodyLines == 2
\* most steps the model returns for a plan
MaxReturned == 3
\* most sub-goals the model returns to buildStepPrompts
MaxSubgoals == 9
\* most lines the instances append to their transcripts
MaxTranscript == 2
\* most files of a walked workspace, largest file, largest cap
MaxEntries == 3
MaxSize == 3
MaxCap == 3
\* most tokens of an answer given to extractJSON
MaxInput == 5
\* most lines one run of the planner sends
MaxLines == 66
\* most segments of the path of a path directive
MaxSegs == 3
MaxChat == 3
MaxPlanLines == 3

Alphabet == {1}
Bytes == UNION {[1..n -> Alphabet] : n \in 0..MaxLen}
\* a nil []byte; a key that is not in the map; a file that does not exist;
\* no content known (one-element sequences that are not in Bytes, so that
\* they compare with contents)
Nil == <<-1>>
NoKey == <<-2>>
Missing == <<-3>>
Unknown == <<-4>>
\* m.output not read by a pending +=
NoLoad == "noload"
NoSnap == [op |-> None, path |-> None, result |-> Nil]
\* no fence was processed by the last step; no turn to repeat
NoIO == [mkdir |-> TRUE, write |-> None]
NoFence == [path |-> None, body |-> Nil]
\* an empty PrevRuntimeErr; no goal; nothing sent or failed
NoErr == [kind |-> None, step |-> 0]
NoGoal == [step |-> 0, marker |-> FALSE, text |-> NoErr]
NoLine == [step |-> 0, what |-> None]
\* a channel as make leaves it
NewChan == [closed |-> FALSE, senders |-> {}, closers |-> {}, late |-> FALSE]
ChanIds == 0..Cardinality(Runs)
\* the forwarding goroutine holds no message
NoMsg == [what |-> None, sub |-> 0]
\* no transcriptSyncMsg is on its way
NoSync == [err |-> None, content |-> Nil, checksum |-> Nil]
\* extractJSON has not returned
NotExtracted == [err |-> None, out |-> <<>>]

(***************************************************************************)
(* The state after construction.                                           *)
(***************************************************************************)
LockAtStart ==
    /\ pc = [g \in Callers |-> "idle"]
    /\ waited = [g \in Callers |-> 0]
    /\ warned = [g \in Callers |-> FALSE]
    /\ release = [g \in Callers |-> FALSE]
    /\ fnRuns = [g \in Callers |-> 0]
    /\ codegenLocal = [i \in Instances |-> None]
    /\ ctxDone = [i \in Instances |-> FALSE]
    /\ output = [i \in Instances |-> <<>>]
    /\ dirExists = FALSE
    /\ dirAge = 0
    /\ dirOwner = None
    /\ heldFor = [g \in Callers |-> 0]
    /\ lost = [g \in Callers |-> FALSE]
    /\ ctxAtCall = [g \in Callers |-> FALSE]
    /\ blocker = [g \in Callers |-> None]
    /\ blockerGone = [g \in Callers |-> FALSE]
    /\ blockRemoved = [g \in Callers |-> FALSE]
    /\ outLen = [g \in Callers |-> 0]

BuildAtStart ==
    /\ phasePc = "start"
    /\ wpc = [w \in Workers |-> "idle"]
    /\ wFences = [w \in Workers |-> 0]
    /\ wLoaded = [w \in Workers |-> NoLoad]
    /\ nWrites = [w \in Workers |-> 0]
    /\ results = <<>>
    /\ msgs = <<>>
    /\ updLoaded = NoLoad
    /\ thinking = ""
    /\ mutatedBy = {}

TrackerAtStart ==
    /\ prev = [p \in Paths |-> NoKey]
    /\ seqno = 0
    /\ blocks = <<>>
    /\ actions = <<>>
    /\ snap = NoSnap
    /\ lastRec = [p \in Paths |-> Unknown]
    /\ known = [p \in Paths |-> Unknown]
    /\ io = NoIO
    /\ lastFence = NoFence
    /\ same = FALSE

FenceAtStart ==
    /\ fences = <<>>
    /\ response = <<>>
    /\ found = <<>>
    /\ fidx = 0
    /\ made = <<>>
    /\ fpc = "start"

\* NewModel makes the first planner queue
PlannerAtStart ==
    /\ plannerQueue = 0
    /\ chans = [q \in ChanIds |-> NewChan]
    /\ rpc = [r \in Runs |-> "idle"]
    /\ site = [r \in Runs |-> None]
    /\ planN = [r \in Runs |-> 0]
    /\ stepI = [r \in Runs |-> 0]
    /\ prevErr = [r \in Runs |-> NoErr]
    /\ result = [r \in Runs |-> None]
    /\ goal = [r \in Runs |-> NoGoal]
    /\ ranFail = [r \in Runs |-> NoErr]
    /\ attempts = [r \in Runs |-> 0]
    /\ lastFail = [r \in Runs |-> NoLine]
    /\ lastSent = [r \in Runs |-> NoLine]
    /\ genCalls = [r \in Runs |-> <<>>]

StepBuilderAtStart ==
    /\ sbPc = "split"
    /\ nSub = 0
    /\ phase = [i \in 1..MaxSubgoals |-> None]
    /\ fwd = NoMsg
    /\ treeEmitted = FALSE
    /\ tuiComplete = FALSE
    /\ lateProgress = FALSE

TranscriptAtStart ==
    /\ tfile = Missing
    /\ tOutput = [i \in Instances |-> <<>>]
    /\ lastTranscriptSig = [i \in Instances |-> <<>>]
    /\ syncMsg = [i \in Instances |-> NoSync]
    /\ quiet = FALSE
    /\ lastWriter = None
    /\ writeFailed = FALSE

\* no snapshot is asked for: an empty workspace and caps of 0
ContextAtStart ==
    /\ entries = <<>>
    /\ maxFiles = 0
    /\ maxTotalBytes = 0
    /\ perFileLimit = 0
    /\ included = <<>>
    /\ total = 0
    /\ bodies = <<>>
    /\ cpc = "done"

JsonAtStart ==
    /\ raw = <<>>
    /\ extracted = NotExtracted

QueueAtStart ==
    /\ qbuf = <<>>
    /\ qclosed = FALSE
    /\ qrun = 0
    /\ running = 0
    /\ nLines = [r \in ChatPrompts |-> 0]
    /\ sentK = 0
    /\ ticks = 0
    /\ chatLog = <<>>
    /\ returned = {}
    /\ seenClosed = FALSE

WritersAtStart ==
    /\ mwPc = [w \in Materializers |-> "idle"]
    /\ mwFence = [w \in Materializers |-> NoFence]
    /\ mwOld = [w \in Materializers |-> Nil]
    /\ written = {}
    /\ overlapped = FALSE

PathAtStart ==
    /\ wroot = <<"w">>
    /\ directive = <<>>
    /\ target = <<>>
    /\ via = None

ChatAtStart ==
    /\ isThinking = FALSE
    /\ chatLabel = ""
    /\ chatPath = None
    /\ nChat = 0
    /\ calls = 0
    /\ genMsgs = 0
    /\ tickMsgs = 0
    /\ cqLines = 0
    /\ cqClosed = FALSE

ForwarderAtStart ==
    /\ fwdPc = "range"
    /\ progClosed = 0

MoreAtStart ==
    /\ TranscriptAtStart
    /\ ContextAtStart
    /\ JsonAtStart
    /\ QueueAtStart
    /\ WritersAtStart
    /\ PathAtStart
    /\ ChatAtStart
    /\ ForwarderAtStart

LaterAtStart ==
    /\ FenceAtStart
    /\ variant = "runtime5"
    /\ PlannerAtStart
    /\ StepBuilderAtStart
    /\ MoreAtStart

\* the start of the parts modelled first, for the specifications of the rest
OldAtStart ==
    /\ LockAtStart
    /\ lockDir = [i \in Instances |-> ""]
    /\ BuildAtStart
    /\ TrackerAtStart
    /\ disk = [p \in Paths |-> Missing]
    /\ FenceAtStart
    /\ variant = "runtime5"
    /\ PlannerAtStart
    /\ StepBuilderAtStart

BesideContext ==
    /\ OldAtStart
    /\ TranscriptAtStart
    /\ JsonAtStart
    /\ QueueAtStart
    /\ WritersAtStart
    /\ PathAtStart
    /\ ChatAtStart
    /\ ForwarderAtStart

BesideTranscript ==
    /\ OldAtStart
    /\ ContextAtStart
    /\ JsonAtStart
    /\ QueueAtStart
    /\ WritersAtStart
    /\ PathAtStart
    /\ ChatAtStart
    /\ ForwarderAtStart

BesideJson ==
    /\ OldAtStart
    /\ TranscriptAtStart
    /\ ContextAtStart
    /\ QueueAtStart
    /\ WritersAtStart
    /\ PathAtStart
    /\ ChatAtStart
    /\ ForwarderAtStart

BesideQueue ==
    /\ OldAtStart
    /\ TranscriptAtStart
    /\ ContextAtStart
    /\ JsonAtStart
    /\ WritersAtStart
    /\ PathAtStart
    /\ ChatAtStart
    /\ ForwarderAtStart

BesideWriters ==
    /\ OldAtStart
    /\ TranscriptAtStart
    /\ ContextAtStart
    /\ JsonAtStart
    /\ QueueAtStart
    /\ PathAtStart
    /\ ChatAtStart
    /\ ForwarderAtStart

BesidePath ==
    /\ OldAtStart
    /\ TranscriptAtStart
    /\ ContextAtStart
    /\ JsonAtStart
    /\ QueueAtStart
    /\ WritersAtStart
    /\ ChatAtStart
    /\ ForwarderAtStart

BesideChat ==
    /\ OldAtStart
    /\ TranscriptAtStart
    /\ ContextAtStart
    /\ JsonAtStart
    /\ QueueAtStart
    /\ WritersAtStart
    /\ PathAtStart
    /\ ForwarderAtStart

BesideForwarder ==
    /\ OldAtStart
    /\ TranscriptAtStart
    /\ ContextAtStart
    /\ JsonAtStart
    /\ QueueAtStart
    /\ WritersAtStart
    /\ PathAtStart
    /\ ChatAtStart

\* withCodegenLock is a method of the model; m.lockDir is a field nothing in
\* the program assigns, so both of its cases are taken as inputs here
InitLock ==
    /\ LockAtStart
    /\ lockDir \in [Instances -> {"", "locks"}]
    /\ BuildAtStart
    /\ LaterAtStart
    /\ TrackerAtStart
    /\ disk = [p \in Paths |-> Missing]

(***************************************************************************)
(* model.withCodegenLock, entry: fn == nil returns at once.                *)
(***************************************************************************)
withCodegenLockNil(g) ==
    /\ pc[g] = "idle"
    /\ pc' = [pc EXCEPT ![g] = "done"]
    /\ UNCHANGED <<waited, warned, release, fnRuns, codegenLocal, lockDir,
                   ctxDone, output, dirVars, callHist>>
    /\ UNCHANGED notLock

(***************************************************************************)
(* model.withCodegenLock, entry: m.codegenLocal.Lock(), then the choice on *)
(* m.lockDir; with a lock directory acquireDirLock starts (waited = 0).    *)
(***************************************************************************)
withCodegenLockEnter(g) ==
    LET i == instOf[g] IN
    /\ pc[g] = "idle"
    /\ codegenLocal[i] = None
    /\ codegenLocal' = [codegenLocal EXCEPT ![i] = g]
    /\ pc' = [pc EXCEPT ![g] = IF lockDir[i] = "" THEN "fn" ELSE "mkdir"]
    /\ ctxAtCall' = [ctxAtCall EXCEPT ![g] = ctxDone[i]]
    /\ outLen' = [outLen EXCEPT ![g] = Len(output[i])]
    /\ UNCHANGED <<waited, warned, release, fnRuns, lockDir, ctxDone, output,
                   dirVars, heldFor, lost, blocker, blockerGone, blockRemoved>>
    /\ UNCHANGED notLock

(***************************************************************************)
(* acquireDirLock: os.Mkdir(path).  Absent: the directory is created, the  *)
(* owner file written and the release function returned.  Present: the     *)
(* loop goes on to the hook.                                               *)
(***************************************************************************)
MkdirSucceeds_Always == TRUE

MkdirSucceeds == ~dirExists

Mkdir(g) ==
    /\ pc[g] = "mkdir"
    /\ IF MkdirSucceeds
       THEN /\ dirExists' = TRUE
            /\ dirAge' = 0
            /\ dirOwner' = g
            /\ release' = [release EXCEPT ![g] = TRUE]
            /\ heldFor' = [heldFor EXCEPT ![g] = 0]
            /\ pc' = [pc EXCEPT ![g] = "acquired"]
            /\ UNCHANGED blocker
       ELSE /\ pc' = [pc EXCEPT ![g] = "hook"]
            /\ blocker' = [blocker EXCEPT ![g] =
                             IF @ = None THEN dirOwner ELSE @]
            /\ UNCHANGED <<dirVars, release, heldFor>>
    /\ UNCHANGED <<waited, warned, fnRuns, codegenLocal, lockDir, ctxDone,
                   output, lost, ctxAtCall, outLen, blockerGone, blockRemoved>>
    /\ UNCHANGED notLock

\* os.Mkdir fails with an error other than "exists": acquireDirLock returns it
MkdirError(g) ==
    /\ pc[g] = "mkdir"
    /\ pc' = [pc EXCEPT ![g] = "failed"]
    /\ UNCHANGED <<waited, warned, release, fnRuns, codegenLocal, lockDir,
                   ctxDone, output, dirVars, callHist>>
    /\ UNCHANGED notLock

(***************************************************************************)
(* The hook withCodegenLock passes: one "Waiting" line, once waited has    *)
(* reached 500ms.  Then acquireDirLock goes to its select.                 *)
(***************************************************************************)
HookWarns_EveryRetry(w, wt) == ~(wt < WarnAfter)

HookWarns(w, wt) == ~(w \/ wt < WarnAfter)

hook(g) ==
    LET i == instOf[g] IN
    /\ pc[g] = "hook"
    /\ IF HookWarns(warned[g], waited[g])
       THEN /\ warned' = [warned EXCEPT ![g] = TRUE]
            /\ output' = [output EXCEPT ![i] = Append(@, "waiting")]
       ELSE UNCHANGED <<warned, output>>
    /\ pc' = [pc EXCEPT ![g] = "select"]
    /\ UNCHANGED <<waited, release, fnRuns, codegenLocal, lockDir, ctxDone,
                   dirVars, callHist>>
    /\ UNCHANGED notLock

\* select: case <-ctx.Done(): return nil, ctx.Err()
SelectCtxDone(g) ==
    /\ pc[g] = "select"
    /\ ctxDone[instOf[g]]
    /\ pc' = [pc EXCEPT ![g] = "failed"]
    /\ UNCHANGED <<waited, warned, release, fnRuns, codegenLocal, lockDir,
                   ctxDone, output, dirVars, callHist>>
    /\ UNCHANGED notLock

\* waited after one more sleep: it stops growing at the first value >= 2s
NextWaited(w) == IF w < ReclaimWait THEN w + Step ELSE w

\* select: case <-time.After(step), then the test waited >= 2s
SelectTimer(g) ==
    /\ pc[g] = "select"
    /\ waited' = [waited EXCEPT ![g] = NextWaited(@)]
    /\ pc' = [pc EXCEPT ![g] =
                IF NextWaited(waited[g]) >= ReclaimWait THEN "stat" ELSE "mkdir"]
    /\ UNCHANGED <<warned, release, fnRuns, codegenLocal, lockDir, ctxDone,
                   output, dirVars, callHist>>
    /\ UNCHANGED notLock

\* os.Stat(path) and time.Since(info.ModTime()) > 10*time.Minute
IsStale_NoAge == dirExists

IsStale == dirExists /\ dirAge > StaleAge

Stat(g) ==
    /\ pc[g] = "stat"
    /\ pc' = [pc EXCEPT ![g] = IF IsStale THEN "remove" ELSE "mkdir"]
    /\ UNCHANGED <<waited, warned, release, fnRuns, codegenLocal, lockDir,
                   ctxDone, output, dirVars, callHist>>
    /\ UNCHANGED notLock

\* _ = os.RemoveAll(path) of the stale-lock reclaim, a system call of its own
\* after the Stat: whatever is at the path by now is removed
Reclaim(g) ==
    /\ pc[g] = "remove"
    /\ dirExists' = FALSE
    /\ dirAge' = 0
    /\ dirOwner' = None
    /\ lost' = [h \in Callers |->
                  IF dirExists /\ dirOwner = h /\ release[h]
                  THEN TRUE ELSE lost[h]]
    /\ blockRemoved' = [h \in Callers |->
                          blockRemoved[h] \/ (dirExists /\ blocker[h] # None)]
    /\ pc' = [pc EXCEPT ![g] = "mkdir"]
    /\ UNCHANGED <<waited, warned, release, fnRuns, codegenLocal, lockDir,
                   ctxDone, output, heldFor, ctxAtCall, outLen, blocker,
                   blockerGone>>
    /\ UNCHANGED notLock

(***************************************************************************)
(* withCodegenLock after acquireDirLock has returned.                      *)
(***************************************************************************)
\* (a variant that returns after the warning line)
AcquireFailed_Returns(g) ==
    /\ pc[g] = "failed"
    /\ output' = [output EXCEPT ![instOf[g]] = Append(@, "lockerr")]
    /\ pc' = [pc EXCEPT ![g] = "return"]
    /\ UNCHANGED <<waited, warned, release, fnRuns, codegenLocal, lockDir,
                   ctxDone, dirVars, callHist>>
    /\ UNCHANGED notLock

\* err != nil: the warning line, then fn() without the cross-process lock
AcquireFailed(g) ==
    /\ pc[g] = "failed"
    /\ output' = [output EXCEPT ![instOf[g]] = Append(@, "lockerr")]
    /\ pc' = [pc EXCEPT ![g] = "fn"]
    /\ UNCHANGED <<waited, warned, release, fnRuns, codegenLocal, lockDir,
                   ctxDone, dirVars, callHist>>
    /\ UNCHANGED notLock

\* err == nil: the "acquired" line if the wait was announced
Acquired(g) ==
    /\ pc[g] = "acquired"
    /\ output' = [output EXCEPT ![instOf[g]] =
                    IF warned[g] THEN Append(@, "acquired") ELSE @]
    /\ pc' = [pc EXCEPT ![g] = "fn"]
    /\ UNCHANGED <<waited, warned, release, fnRuns, codegenLocal, lockDir,
                   ctxDone, dirVars, callHist>>
    /\ UNCHANGED notLock

\* fn()
fn(g) ==
    /\ pc[g] = "fn"
    /\ fnRuns' = [fnRuns EXCEPT ![g] = @ + 1]
    /\ pc' = [pc EXCEPT ![g] = "return"]
    /\ UNCHANGED <<waited, warned, release, codegenLocal, lockDir, ctxDone,
                   output, dirVars, callHist>>
    /\ UNCHANGED notLock

\* the end of a call: m.codegenLocal.Unlock(); the locals of the call and
\* its history are gone, and the callers that found g's directory in their
\* way learn whether g has called its release function and whether that has
\* removed a directory
EndCall(g, removed) ==
    /\ codegenLocal' = [codegenLocal EXCEPT ![instOf[g]] = None]
    /\ pc' = [pc EXCEPT ![g] = "done"]
    /\ waited' = [waited EXCEPT ![g] = 0]
    /\ warned' = [warned EXCEPT ![g] = FALSE]
    /\ release' = [release EXCEPT ![g] = FALSE]
    /\ heldFor' = [heldFor EXCEPT ![g] = 0]
    /\ ctxAtCall' = [ctxAtCall EXCEPT ![g] = FALSE]
    /\ outLen' = [outLen EXCEPT ![g] = 0]
    /\ blocker' = [blocker EXCEPT ![g] = None]
    /\ blockerGone' = [h \in Callers |->
                         IF h = g THEN FALSE
                         ELSE IF release[g] /\ blocker[h] = g THEN TRUE
                         ELSE blockerGone[h]]
    /\ blockRemoved' = [h \in Callers |->
                          IF h = g THEN FALSE
                          ELSE blockRemoved[h]
                               \/ (removed /\ blocker[h] # None)]

\* the deferred calls: release() (os.RemoveAll(path)) if the lock was
\* acquired, then m.codegenLocal.Unlock()
Return(g) ==
    /\ pc[g] = "return"
    /\ IF release[g]
       THEN /\ dirExists' = FALSE
            /\ dirAge' = 0
            /\ dirOwner' = None
            /\ lost' = [h \in Callers |->
                          IF h = g THEN FALSE
                          ELSE IF dirExists /\ dirOwner = h /\ release[h]
                          THEN TRUE ELSE lost[h]]
       ELSE /\ UNCHANGED dirVars
            /\ lost' = [lost EXCEPT ![g] = FALSE]
    /\ EndCall(g, release[g] /\ dirExists)
    /\ UNCHANGED <<fnRuns, lockDir, ctxDone, output>>
    /\ UNCHANGED notLock

\* the same with release() returning an error: the directory stays, one more
\* warning line
ReturnReleaseError(g) ==
    /\ pc[g] = "return"
    /\ release[g]
    /\ output' = [output EXCEPT ![instOf[g]] = Append(@, "releaseerr")]
    /\ lost' = [lost EXCEPT ![g] = FALSE]
    /\ EndCall(g, FALSE)
    /\ UNCHANGED <<fnRuns, lockDir, ctxDone, dirVars>>
    /\ UNCHANGED notLock

(***************************************************************************)
(* Environment: the context is cancelled; time passes.                     *)
(***************************************************************************)
Cancel(i) ==
    /\ ~ctxDone[i]
    /\ ctxDone' = [ctxDone EXCEPT ![i] = TRUE]
    /\ UNCHANGED <<pc, waited, warned, release, fnRuns, codegenLocal, lockDir,
                   output, dirVars, callHist>>
    /\ UNCHANGED notLock

\* an age after more than ten minutes have passed
Aged(a) == IF a > StaleAge THEN a ELSE a + StaleAge + Step

\* more than ten minutes pass while the lock directory is there
TimePasses ==
    /\ dirExists
    /\ dirAge <= StaleAge
    /\ dirAge' = Aged(dirAge)
    /\ heldFor' = [h \in Callers |->
                     IF release[h] THEN Aged(heldFor[h]) ELSE heldFor[h]]
    /\ UNCHANGED <<pc, waited, warned, release, fnRuns, codegenLocal, lockDir,
                   ctxDone, output, dirExists, dirOwner, lost, ctxAtCall,
                   outLen, blocker, blockerGone, blockRemoved>>
    /\ UNCHANGED notLock

NextLock ==
    \/ \E g \in Callers : withCodegenLockNil(g)
    \/ \E g \in Callers : withCodegenLockEnter(g)
    \/ \E g \in Callers : Mkdir(g)
    \/ \E g \in Callers : MkdirError(g)
    \/ \E g \in Callers : hook(g)
    \/ \E g \in Callers : SelectCtxDone(g)
    \/ \E g \in Callers : SelectTimer(g)
    \/ \E g \in Callers : Stat(g)
    \/ \E g \in Callers : Reclaim(g)
    \/ \E g \in Callers : AcquireFailed(g)
    \/ \E g \in Callers : Acquired(g)
    \/ \E g \in Callers : fn(g)
    \/ \E g \in Callers : Return(g)
    \/ \E g \in Callers : ReturnReleaseError(g)
    \/ \E i \in Instances : Cancel(i)
    \/ TimePasses

SpecLock == InitLock /\ [][NextLock]_vars

(***************************************************************************)
(* Properties of the directory lock.                                       *)
(***************************************************************************)
\* the callers that hold the lock: acquireDirLock has returned them a release
\* function and they have not called it
Holders == {g \in Callers : release[g]}

\* the lines a call has appended to m.output so far
Appended(g) ==
    SubSeq(output[instOf[g]], outLen[g] + 1, Len(output[instOf[g]]))

Count(seq, x) == Cardinality({k \in 1..Len(seq) : seq[k] = x})

Started == {g \in Callers : pc[g] # "idle"}

C3_OnlyStaleRemoved ==
    [][\A g \in Callers :
          (pc[g] = "remove" /\ pc'[g] = "mkdir" /\ dirExists)
          => (waited[g] >= ReclaimWait /\ dirAge > StaleAge)]_vars

\* C4: a call whose context is cancelled does not acquire: a call started
\* with a cancelled context never creates the lock directory nor gets a
\* release function.
C4_CancelledNeverAcquires ==
    \A g \in Callers :
        ctxAtCall[g] => (~release[g] /\ ~(dirExists /\ dirOwner = g))

\* a call of withCodegenLock whose acquireDirLock has failed, at or after fn
FailedCall(g) ==
    /\ pc[g] \in {"fn", "return"}
    /\ lockDir[instOf[g]] # ""
    /\ ~release[g]

\* C7: when the acquisition fails, withCodegenLock appends one warning line
\* and runs fn exactly once, holding the in-process mutex and not holding
\* the cross-process lock.
C7_FailedAcquireStillRunsFn ==
    \A g \in Callers :
        FailedCall(g) =>
            /\ Count(Appended(g), "lockerr") = 1
            /\ fnRuns[g] = (IF pc[g] = "fn" THEN 0 ELSE 1)
            /\ codegenLocal[instOf[g]] = g
            /\ ~(dirExists /\ dirOwner = g)

\* C7 witness: a call whose acquisition was cancelled while it waited has
\* run fn.
C7_Witness ==
    \E g \in Callers :
        FailedCall(g) /\ pc[g] = "return" /\ blocker[g] # None

\* C8, as claimed: a run that finds the lock held emits the "Waiting" line
\* exactly once, no later than 500ms after it started waiting, and the
\* "lock acquired" line only after the holder has released the lock.
C8_WaitingWithin500ms ==
    [][\A g \in Callers :
          /\ (~warned[g] /\ warned'[g]) => waited[g] <= WarnAfter
          /\ (pc[g] = "mkdir" /\ pc'[g] = "acquired" /\ blocker[g] # None)
                => Count(Appended(g), "waiting") = 1
          /\ (pc[g] = "acquired" /\ pc'[g] = "fn" /\ warned[g])
                => blockerGone[g]]_vars

\* C8, amended: a run that finds the lock held emits the "Waiting" line at
\* most once, at its first retry after it has slept 500ms or more (five
\* sleeps of 120ms), and the "lock acquired" line only if it has emitted the
\* "Waiting" line and only after the directory in its way has been removed
\* (by a release or by a stale-lock reclaim).
C8_WaitingOnceAfter500ms ==
    [][\A g \in Callers :
          /\ pc'[g] \notin {"idle", "done"}
                => Count(Appended(g), "waiting")' <= 1
          /\ (~warned[g] /\ warned'[g])
                => /\ waited[g] >= WarnAfter
                   /\ waited[g] - Step < WarnAfter
                   /\ Count(Appended(g), "waiting")' = 1
          /\ (pc[g] = "acquired" /\ pc'[g] = "fn")
                => /\ Count(Appended(g), "acquired")' =
                         (IF warned[g] THEN 1 ELSE 0)
                   /\ warned[g] => blockRemoved[g]]_vars

\* C8 witness: a run has announced its wait and then the acquisition.
C8_Witness ==
    \E g \in Callers :
        /\ pc[g] = "fn" /\ release[g] /\ warned[g]
        /\ Appended(g) = <<"waiting", "acquired">>

(***************************************************************************)
(* The step builder: runStepBuilderPhase, its file workers and             *)
(* saveCodeBlocks, and the Update handler.                                 *)
(*                                                                         *)
(* m.output += x is a read of m.output and a later write of the string     *)
(* read with x appended.  The workers and Update do it without a common    *)
(* lock, so the read and the write are two steps here and a write may      *)
(* overwrite what another thread has appended in between.                  *)
(***************************************************************************)
\* NewModel: m.lockDir is not assigned
InitBuild ==
    /\ LockAtStart
    /\ lockDir = [i \in Instances |-> ""]
    /\ BuildAtStart
    /\ LaterAtStart
    /\ TrackerAtStart
    /\ disk = [p \in Paths |-> Missing]

\* the positions of a worker at which it executes m.output += x
AppendSites == {"sep", "nocode", "saved", "failed", "normwarn"}

\* the write of m.output += x by worker w
StoreOutput(w, x) ==
    /\ wLoaded[w] # NoLoad
    /\ output' = [output EXCEPT ![Builder] = Append(wLoaded[w], x)]
    /\ wLoaded' = [wLoaded EXCEPT ![w] = NoLoad]
    /\ mutatedBy' = mutatedBy \cup {w}

\* progCh <- "Step i/n": the message goes to the program
PhaseStart ==
    /\ phasePc = "start"
    /\ msgs' = Append(msgs, "step")
    /\ phasePc' = "plan"
    /\ UNCHANGED <<wpc, wFences, wLoaded, nWrites, results, updLoaded,
                   thinking, mutatedBy, output, notBuild>>

\* buildFilePlan succeeds: one goroutine per planned file
PhasePlan ==
    /\ phasePc = "plan"
    /\ wpc' = [w \in Workers |-> "thinking"]
    /\ phasePc' = "wait"
    /\ UNCHANGED <<wFences, wLoaded, nWrites, results, msgs, updLoaded,
                   thinking, mutatedBy, output, notBuild>>

\* buildFilePlan fails: the phase returns the error, runStepBuilder reports
\* "Step i failed"
PhasePlanError ==
    /\ phasePc = "plan"
    /\ msgs' = Append(msgs, "stepfailed")
    /\ phasePc' = "done"
    /\ UNCHANGED <<wpc, wFences, wLoaded, nWrites, results, updLoaded,
                   thinking, mutatedBy, output, notBuild>>

\* m.mu.Lock(); m.thinking = "building ..."; m.mu.Unlock()
WorkerThinking(w) ==
    /\ wpc[w] = "thinking"
    /\ thinking' = w
    /\ mutatedBy' = mutatedBy \cup {w}
    /\ wpc' = [wpc EXCEPT ![w] = "generate"]
    /\ UNCHANGED <<phasePc, wFences, wLoaded, nWrites, results, msgs,
                   updLoaded, output, notBuild>>

\* GenerateWithFiles, or Generate after it has failed, returns a response
\* with n fences; saveCodeBlocks(res) starts
WorkerGenerate(w) ==
    /\ wpc[w] = "generate"
    /\ \E n \in 0..MaxWorkerFences : wFences' = [wFences EXCEPT ![w] = n]
    /\ wpc' = [wpc EXCEPT ![w] = "sep"]
    /\ UNCHANGED <<phasePc, wLoaded, nWrites, results, msgs, updLoaded,
                   thinking, mutatedBy, output, notBuild>>

\* GenerateWithFiles and Generate both fail
WorkerGenerateFail(w) ==
    /\ wpc[w] = "generate"
    /\ results' = Append(results, "failed to build")
    /\ wpc' = [wpc EXCEPT ![w] = "done"]
    /\ UNCHANGED <<phasePc, wFences, wLoaded, nWrites, msgs, updLoaded,
                   thinking, mutatedBy, output, notBuild>>

\* the read of m.output += x
LoadOutput(w) ==
    /\ wpc[w] \in AppendSites
    /\ wLoaded[w] = NoLoad
    /\ wLoaded' = [wLoaded EXCEPT ![w] = output[Builder]]
    /\ UNCHANGED <<phasePc, wpc, wFences, nWrites, results, msgs, updLoaded,
                   thinking, mutatedBy, output, notBuild>>

\* saveCodeBlocks: m.output += "\n---\n", then the test on the matches
SaveSeparator(w) ==
    /\ wpc[w] = "sep"
    /\ StoreOutput(w, "sep")
    /\ wpc' = [wpc EXCEPT ![w] = IF wFences[w] = 0 THEN "nocode" ELSE "fence"]
    /\ UNCHANGED <<phasePc, wFences, nWrites, results, msgs, updLoaded,
                   thinking, notBuild>>

\* saveCodeBlocks: no fence, "No code blocks detected."
SaveNoBlocks(w) ==
    /\ wpc[w] = "nocode"
    /\ StoreOutput(w, "nocode")
    /\ wpc' = [wpc EXCEPT ![w] = "result"]
    /\ UNCHANGED <<phasePc, wFences, nWrites, results, msgs, updLoaded,
                   thinking, notBuild>>

\* saveCodeBlocks: the file name of the fence, os.MkdirAll, os.WriteFile
WriteFile(w) ==
    /\ wpc[w] = "fence"
    /\ \E ok \in BOOLEAN :
          /\ wpc' = [wpc EXCEPT ![w] = IF ok THEN "saved" ELSE "failed"]
          /\ nWrites' = [nWrites EXCEPT ![w] = IF ok THEN @ + 1 ELSE @]
    /\ UNCHANGED <<phasePc, wFences, wLoaded, results, msgs, updLoaded,
                   thinking, mutatedBy, output, notBuild>>

\* saveCodeBlocks: the "saved" or "failed to save" line, then the next fence
SaveLog(w) ==
    /\ wpc[w] \in {"saved", "failed"}
    /\ StoreOutput(w, wpc[w])
    /\ wFences' = [wFences EXCEPT ![w] = @ - 1]
    /\ wpc' = [wpc EXCEPT ![w] = IF wFences[w] = 1 THEN "normalize" ELSE "fence"]
    /\ UNCHANGED <<phasePc, nWrites, results, msgs, updLoaded, thinking,
                   notBuild>>

\* saveCodeBlocks: addImports and NormalizeImports, which rewrite files of
\* the workspace
Normalize(w) ==
    /\ wpc[w] = "normalize"
    /\ \E wrote \in BOOLEAN, err \in BOOLEAN :
          /\ nWrites' = [nWrites EXCEPT ![w] = IF wrote THEN @ + 1 ELSE @]
          /\ wpc' = [wpc EXCEPT ![w] = IF err THEN "normwarn" ELSE "result"]
    /\ UNCHANGED <<phasePc, wFences, wLoaded, results, msgs, updLoaded,
                   thinking, mutatedBy, output, notBuild>>

\* saveCodeBlocks: the "import normalize" line
SaveNormalizeWarning(w) ==
    /\ wpc[w] = "normwarn"
    /\ StoreOutput(w, "normwarn")
    /\ wpc' = [wpc EXCEPT ![w] = "result"]
    /\ UNCHANGED <<phasePc, wFences, nWrites, results, msgs, updLoaded,
                   thinking, notBuild>>

\* results <- "ok path"; wg.Done()
WorkerResult(w) ==
    /\ wpc[w] = "result"
    /\ results' = Append(results, "built")
    /\ wpc' = [wpc EXCEPT ![w] = "done"]
    /\ UNCHANGED <<phasePc, wFences, wLoaded, nWrites, msgs, updLoaded,
                   thinking, mutatedBy, output, notBuild>>

\* wg.Wait(); close(results)
PhaseCollect ==
    /\ phasePc = "wait"
    /\ \A w \in Workers : wpc[w] = "done"
    /\ phasePc' = "collect"
    /\ UNCHANGED <<wpc, wFences, wLoaded, nWrites, results, msgs, updLoaded,
                   thinking, mutatedBy, output, notBuild>>

\* for res := range results { progCh <- res }
PhaseForward ==
    /\ phasePc = "collect"
    /\ results # <<>>
    /\ msgs' = Append(msgs, Head(results))
    /\ results' = Tail(results)
    /\ UNCHANGED <<phasePc, wpc, wFences, wLoaded, nWrites, updLoaded,
                   thinking, mutatedBy, output, notBuild>>

PhaseReturn ==
    /\ phasePc = "collect"
    /\ results = <<>>
    /\ phasePc' = "done"
    /\ UNCHANGED <<wpc, wFences, wLoaded, nWrites, results, msgs, updLoaded,
                   thinking, mutatedBy, output, notBuild>>

\* Update, case stepBuildProgressMsg: the read of m.output += msg.log
UpdateLoad ==
    /\ msgs # <<>>
    /\ updLoaded = NoLoad
    /\ updLoaded' = output[Builder]
    /\ UNCHANGED <<phasePc, wpc, wFences, wLoaded, nWrites, results, msgs,
                   thinking, mutatedBy, output, notBuild>>

\* Update, case stepBuildProgressMsg: the write of m.output += msg.log
UpdateStore ==
    /\ updLoaded # NoLoad
    /\ output' = [output EXCEPT ![Builder] = Append(updLoaded, Head(msgs))]
    /\ msgs' = Tail(msgs)
    /\ updLoaded' = NoLoad
    /\ mutatedBy' = mutatedBy \cup {"Update"}
    /\ UNCHANGED <<phasePc, wpc, wFences, wLoaded, nWrites, results,
                   thinking, notBuild>>

NextBuild ==
    \/ PhaseStart
    \/ PhasePlan
    \/ PhasePlanError
    \/ \E w \in Workers : WorkerThinking(w)
    \/ \E w \in Workers : WorkerGenerate(w)
    \/ \E w \in Workers : WorkerGenerateFail(w)
    \/ \E w \in Workers : LoadOutput(w)
    \/ \E w \in Workers : SaveSeparator(w)
    \/ \E w \in Workers : SaveNoBlocks(w)
    \/ \E w \in Workers : WriteFile(w)
    \/ \E w \in Workers : SaveLog(w)
    \/ \E w \in Workers : Normalize(w)
    \/ \E w \in Workers : SaveNormalizeWarning(w)
    \/ \E w \in Workers : WorkerResult(w)
    \/ PhaseCollect
    \/ PhaseForward
    \/ PhaseReturn
    \/ UpdateLoad
    \/ UpdateStore

SpecBuild == InitBuild /\ [][NextBuild]_vars

(***************************************************************************)
(* Properties of the step builder.                                         *)
(***************************************************************************)
\* the cross-process lock is held by a caller of instance i
LockHeldBy(i) ==
    \E g \in Callers :
        instOf[g] = i /\ release[g] /\ dirExists /\ dirOwner = g

\* C5: every file write of a saveCodeBlocks batch is made while the writing
\* process holds the code-generation lock.
C5_WritesUnderLock ==
    [][\A w \in Workers :
          nWrites'[w] # nWrites[w] => LockHeldBy(Builder)]_vars

\* C6: every assignment to the model's state, m.output above all, is made by
\* the Update handler; the worker goroutines never assign to it.
C6_OnlyUpdateMutates == mutatedBy \subseteq {"Update"}

(***************************************************************************)
(* The change tracker and WriteCodeBlocks.                                 *)
(*                                                                         *)
(* A []byte is Nil or a sequence of bytes; the empty sequence is the       *)
(* non-nil empty slice.  A fence is taken as the path and the body that    *)
(* extractPathAndStrip gives for it.                                       *)
(***************************************************************************)
Fences == [path : Paths, body : Bytes]
Responses == UNION {[1..n -> Fences] : n \in 0..MaxFences}

\* any workspace
InitTracker ==
    /\ LockAtStart
    /\ lockDir = [i \in Instances |-> ""]
    /\ BuildAtStart
    /\ LaterAtStart
    /\ TrackerAtStart
    /\ disk \in [Paths -> Bytes \cup {Missing}]

\* append([]byte(nil), b...): appending no byte to a nil slice gives nil
CloneBytes(b) == IF b = Nil \/ b = <<>> THEN Nil ELSE b

\* os.ReadFile: the content, non-nil also for an empty file
ReadFile(p) == disk[p]

\* ChangeTracker.Snapshot: what it returns
SnapshotResult(pv, p) ==
    IF pv[p] # NoKey THEN CloneBytes(pv[p])
    ELSE IF ReadFile(p) # Missing THEN ReadFile(p)
    ELSE Nil

\* ChangeTracker.Snapshot: t.prev after it
SnapshotPrev(pv, p) ==
    IF pv[p] # NoKey THEN pv
    ELSE IF ReadFile(p) # Missing
         THEN [pv EXCEPT ![p] = CloneBytes(ReadFile(p))]
    ELSE [pv EXCEPT ![p] = Nil]

\* ChangeTracker.Record: t.prev after it
RecordPrev(pv, p, data) ==
    IF data = Nil THEN [pv EXCEPT ![p] = NoKey]
    ELSE [pv EXCEPT ![p] = CloneBytes(data)]

\* the content last recorded or read for p, after a Snapshot of p
KnownAfterSnapshot(p) ==
    IF prev[p] # NoKey THEN known[p]
    ELSE IF disk[p] = Missing THEN Unknown ELSE disk[p]

\* a call of GlobalChanges.Record(rel, data)
Record(p, data) ==
    /\ blocks = <<>>
    /\ prev' = RecordPrev(prev, p, data)
    /\ snap' = [op |-> "Record", path |-> p, result |-> Nil]
    /\ lastRec' = [lastRec EXCEPT ![p] = data]
    /\ known' = [known EXCEPT ![p] = IF data = Nil THEN Unknown ELSE data]
    /\ io' = NoIO /\ lastFence' = NoFence /\ same' = FALSE
    /\ UNCHANGED <<seqno, disk, blocks, actions, notTracker>>

\* a call of GlobalChanges.Snapshot(root, rel)
Snapshot(p) ==
    /\ blocks = <<>>
    /\ prev' = SnapshotPrev(prev, p)
    /\ snap' = [op |-> "Snapshot", path |-> p,
                result |-> SnapshotResult(prev, p)]
    /\ lastRec' = [lastRec EXCEPT ![p] = IF prev[p] = NoKey THEN Unknown ELSE @]
    /\ known' = [known EXCEPT ![p] = KnownAfterSnapshot(p)]
    /\ io' = NoIO /\ lastFence' = NoFence /\ same' = FALSE
    /\ UNCHANGED <<seqno, disk, blocks, actions, notTracker>>

\* WriteCodeBlocks(root, response): BeginPrompt, extractCodeBlocks, and the
\* "info" action of a response without a fence
WriteCodeBlocks(resp) ==
    /\ blocks = <<>>
    /\ seqno < MaxPrompts
    /\ seqno' = seqno + 1
    /\ blocks' = resp
    /\ actions' = IF resp = <<>>
                  THEN <<[path |-> None, action |-> "info",
                          message |-> "No code blocks detected."]>>
                  ELSE <<>>
    /\ snap' = [op |-> "WriteCodeBlocks", path |-> None, result |-> Nil]
    /\ io' = NoIO
    /\ same' = (Len(resp) = 1 /\ resp[1] = lastFence)
    /\ lastFence' = NoFence
    /\ UNCHANGED <<prev, disk, lastRec, known, notTracker>>

\* the status WriteCodeBlocks gives a fence
Status(oldB, newB) ==
    IF oldB = Nil THEN "created"
    ELSE IF oldB = newB THEN "unchanged"
    ELSE "updated"

\* WriteCodeBlocks: one round of the loop over the fences; mk is whether
\* os.MkdirAll succeeds (its error is dropped; it cannot fail where the file
\* is there), ok whether os.WriteFile succeeds (it cannot where the
\* directory could not be made)
WriteFence(mk, ok) ==
    /\ blocks # <<>>
    /\ mk \/ ~ok
    /\ mk \/ disk[Head(blocks).path] = Missing
    /\ LET p == Head(blocks).path
           newB == Head(blocks).body
           oldB == SnapshotResult(prev, p)
           pv == SnapshotPrev(prev, p)
           status == Status(oldB, newB)
           alone == Len(blocks) = 1 /\ actions = <<>>
       IN  /\ snap' = [op |-> "WriteFence", path |-> p, result |-> oldB]
           /\ io' = [mkdir |-> mk,
                     write |-> IF status = "unchanged" THEN "skipped"
                               ELSE IF ok THEN "ok" ELSE "failed"]
           /\ IF status # "unchanged" /\ ~ok
              THEN /\ actions' = Append(actions,
                                   [path |-> p, action |-> "error",
                                    message |-> "write failed"])
                   /\ prev' = pv
                   /\ disk' = disk
                   /\ lastRec' = [lastRec EXCEPT ![p] =
                                    IF prev[p] = NoKey THEN Unknown ELSE @]
                   /\ known' = [known EXCEPT ![p] = KnownAfterSnapshot(p)]
                   /\ lastFence' = NoFence
              ELSE /\ actions' = Append(actions,
                                   [path |-> p, action |-> "saved",
                                    message |-> status])
                   /\ prev' = RecordPrev(pv, p, newB)
                   /\ disk' = IF status # "unchanged"
                              THEN [disk EXCEPT ![p] = newB] ELSE disk
                   /\ lastRec' = [lastRec EXCEPT ![p] = newB]
                   /\ known' = [known EXCEPT ![p] = newB]
                   /\ lastFence' = IF alone THEN Head(blocks) ELSE NoFence
    /\ blocks' = Tail(blocks)
    /\ same' = FALSE
    /\ UNCHANGED <<seqno, notTracker>>

\* another program writes or removes a file of the workspace
DiskChange(p, c) ==
    /\ disk[p] # c
    /\ disk' = [disk EXCEPT ![p] = c]
    /\ snap' = [op |-> "DiskChange", path |-> p, result |-> Nil]
    /\ io' = NoIO /\ lastFence' = NoFence /\ same' = FALSE
    /\ UNCHANGED <<prev, seqno, blocks, actions, lastRec, known, notTracker>>

NextTracker ==
    \/ \E p \in Paths, data \in Bytes \cup {Nil} : Record(p, data)
    \/ \E p \in Paths : Snapshot(p)
    \/ \E resp \in Responses : WriteCodeBlocks(resp)
    \/ \E mk, ok \in BOOLEAN : WriteFence(mk, ok)
    \/ \E p \in Paths, c \in Bytes \cup {Missing} : DiskChange(p, c)

SpecTracker == InitTracker /\ [][NextTracker]_vars

(***************************************************************************)
(* Properties of the change tracker.                                       *)
(***************************************************************************)
\* the step is a Snapshot of p, called directly or by WriteCodeBlocks
SnapshotOf(p) ==
    snap'.op \in {"Snapshot", "WriteFence"} /\ snap'.path = p

\* C9: after Record(path, bytes) with non-nil bytes Snapshot returns exactly
\* bytes; after Record(path, nil) it returns the content on disk, or nil if
\* the file is missing.
C9_SnapshotAfterRecord ==
    [][\A p \in Paths :
          SnapshotOf(p) =>
             /\ lastRec[p] \in Bytes => snap'.result = lastRec[p]
             /\ lastRec[p] = Nil =>
                   snap'.result = (IF disk[p] = Missing THEN Nil ELSE disk[p])
      ]_vars

\* C10: an empty payload recorded or read for a path stays distinct from nil:
\* Snapshot returns a non-nil empty value for it, and the next fence for the
\* path is classified against that empty content, not as a first creation.
C10_EmptyIsNotNil ==
    [][\A p \in Paths :
          (SnapshotOf(p) /\ known[p] = <<>>) =>
             /\ snap'.result = <<>>
             /\ snap'.op = "WriteFence" =>
                   actions'[Len(actions')].message # "created"
      ]_vars

\* C11: a turn of one fence whose directory and file operations do not fail
\* yields one saved action and leaves the file with the bytes of the fence
\* body; when it repeats the fence of the turn just before, the action is
\* the unchanged one and no disk write is made.
C11_IdempotentWrite ==
    [][(snap'.op = "WriteFence" /\ Len(blocks) = 1 /\ actions = <<>>
          /\ io'.mkdir /\ io'.write # "failed") =>
          LET f == Head(blocks)
              a == actions'[1]
          IN  /\ Len(actions') = 1
              /\ a.action = "saved"
              /\ disk'[f.path] = f.body
              /\ same => (a.message = "unchanged" /\ io'.write = "skipped")
      ]_vars

(***************************************************************************)
(* The fences of a response.                                               *)
(*                                                                         *)
(* A response is the sequence of its lines.  A fence is written as the     *)
(* line of three backticks and the language, the lines of its body (the    *)
(* path directive first, if it has one) and the line of three backticks.   *)
(***************************************************************************)
\* the line of three backticks and the language go; the line of three
\* backticks alone
FenceOpen == "<fence>go"
FenceClose == "<fence>"
Blank == ""
Text == "x"
PathLine(p) == IF p = "a.go" THEN "// path: a.go" ELSE "// path: b.go"

BodyLines == UNION {[1..n -> {Text, Blank}] : n \in 0..MaxBodyLines}
\* a fence has a body of one line at least
SrcFences == {f \in [path : Paths \cup {None}, body : BodyLines] :
                 f.path # None \/ f.body # <<>>}

Format(f) ==
    <<FenceOpen>> \o (IF f.path = None THEN <<>> ELSE <<PathLine(f.path)>>)
                  \o f.body \o <<FenceClose>>

RECURSIVE FormatAll(_)
FormatAll(fs) == IF fs = <<>> THEN <<>>
                 ELSE Format(Head(fs)) \o FormatAll(Tail(fs))

InitFence ==
    /\ LockAtStart
    /\ lockDir = [i \in Instances |-> ""]
    /\ BuildAtStart
    /\ TrackerAtStart
    /\ disk = [p \in Paths |-> Missing]
    /\ variant = "runtime5"
    /\ PlannerAtStart
    /\ StepBuilderAtStart
    /\ MoreAtStart
    /\ fences \in UNION {[1..n -> SrcFences] : n \in 0..MaxFences}
    /\ response = FormatAll(fences)
    /\ found = <<>>
    /\ fidx = 0
    /\ made = <<>>
    /\ fpc = "start"

\* fenceRe can start a match, and end one, at a line that begins with three
\* backticks
IsFenceLine(l) == l \in {FenceOpen, FenceClose}
Lang(l) == IF l = FenceOpen THEN "go" ELSE ""

\* the number of blank lines that follow line i: what "\s*" can take
BlankRun(ls, i) ==
    CHOOSE k \in 0..Len(ls) :
        /\ \A t \in 1..k : i + t <= Len(ls) /\ ls[i + t] = Blank
        /\ ~(i + k + 1 <= Len(ls) /\ ls[i + k + 1] = Blank)

\* the first line from line from on that begins with three backticks, or 0
FirstFenceLine(ls, from) ==
    IF \E j \in from..Len(ls) : IsFenceLine(ls[j])
    THEN CHOOSE j \in from..Len(ls) :
            /\ IsFenceLine(ls[j])
            /\ \A t \in from..(j - 1) : ~IsFenceLine(ls[t])
    ELSE 0

\* the match of fenceRe that starts at line i: "\s*" is greedy, so the body
\* begins after the blank lines that follow line i if a closing line can
\* still be found at least one line further, and otherwise at the last of
\* these blank lines; "(.*?)" and the closing pattern end at the first line of backticks that
\* comes after one line of body at least
MatchAt(ls, i) ==
    LET k == BlankRun(ls, i)
        j == FirstFenceLine(ls, i + k + 2)
    IN  IF j # 0 THEN [first |-> i + k + 1, close |-> j]
        ELSE IF k >= 1 /\ i + k + 1 <= Len(ls) /\ IsFenceLine(ls[i + k + 1])
             THEN [first |-> i + k, close |-> i + k + 1]
        ELSE [first |-> 0, close |-> 0]

\* FindAllStringSubmatch: the matches from left to right, the search going
\* on after the backticks that closed the match before
RECURSIVE ScanFrom(_, _)
ScanFrom(ls, i) ==
    IF i > Len(ls) THEN <<>>
    ELSE IF ~IsFenceLine(ls[i]) THEN ScanFrom(ls, i + 1)
    ELSE LET m == MatchAt(ls, i)
         IN  IF m.close = 0 THEN ScanFrom(ls, i + 1)
             ELSE <<[lang |-> Lang(ls[i]),
                     body |-> SubSeq(ls, m.first, m.close - 1)]>>
                  \o ScanFrom(ls, m.close + 1)

extractCodeBlocks(ls) == ScanFrom(ls, 1)

\* extractPathAndStrip: the path directive of the first line, and the rest
extractPathAndStrip(code) ==
    IF code # <<>> /\ \E p \in Paths : code[1] = PathLine(p)
    THEN [path |-> CHOOSE p \in Paths : code[1] = PathLine(p),
          body |-> Tail(code)]
    ELSE [path |-> "", body |-> code]

\* fmt.Sprintf("generated/file_%d.%s", i+1, ext) for the language go
GeneratedPath(n) ==
    CASE n = 1 -> "generated/file_1.go"
      [] n = 2 -> "generated/file_2.go"
      [] n = 3 -> "generated/file_3.go"
      [] OTHER -> "generated/file_n.go"

\* WriteCodeBlocks(root, response) up to its loop
WriteCodeBlocksText ==
    /\ fpc = "start"
    /\ found' = extractCodeBlocks(response)
    /\ fidx' = 0
    /\ IF found' = <<>>
       THEN /\ made' = <<[path |-> "", action |-> "info"]>>
            /\ fpc' = "done"
       ELSE /\ made' = <<>>
            /\ fpc' = "loop"
    /\ UNCHANGED <<fences, response, notFence>>

\* WriteCodeBlocks: one round of the loop, for the block of index fidx; ok is
\* whether the write succeeds or is skipped
WriteCodeBlocksLoop(ok) ==
    /\ fpc = "loop"
    /\ LET ps == extractPathAndStrip(Head(found).body)
           path == IF ps.path = "" THEN GeneratedPath(fidx + 1) ELSE ps.path
       IN  made' = Append(made, [path |-> path,
                                 action |-> IF ok THEN "saved" ELSE "error"])
    /\ found' = Tail(found)
    /\ fidx' = fidx + 1
    /\ fpc' = IF Tail(found) = <<>> THEN "done" ELSE "loop"
    /\ UNCHANGED <<fences, response, notFence>>

NextFence ==
    \/ WriteCodeBlocksText
    \/ \E ok \in BOOLEAN : WriteCodeBlocksLoop(ok)

SpecFence == InitFence /\ [][NextFence]_vars

\* the path the action of the i-th fence of the response is to have
FencePath(i) ==
    IF fences[i].path = None THEN GeneratedPath(i) ELSE fences[i].path

\* C12: for a response made of N fences WriteCodeBlocks returns N actions,
\* the i-th for the path of the i-th fence, each of them saved or error.
C12_OneActionPerFence ==
    (fpc = "done" /\ Len(fences) >= 1) =>
        /\ Len(made) = Len(fences)
        /\ \A i \in 1..Len(made) :
              /\ made[i].action \in {"saved", "error"}
              /\ made[i].path = FencePath(i)

\* C13: when os.MkdirAll or os.WriteFile fails for a fence, the actions get
\* exactly one more entry, an error for the path of that fence, the tracker
\* gets no Record of the fence (it keeps what Snapshot left), and the loop
\* goes on with the fences after it.
C13_FailureIsOneErrorAction ==
    [][(snap'.op = "WriteFence" /\ (~io'.mkdir \/ io'.write = "failed")) =>
          LET p == Head(blocks).path
          IN  /\ Len(actions') = Len(actions) + 1
              /\ actions'[Len(actions')].action = "error"
              /\ actions'[Len(actions')].path = p
              /\ prev' = SnapshotPrev(prev, p)
              /\ blocks' = Tail(blocks)
      ]_vars

(***************************************************************************)
(* RunPlanner and the planner queue.                                       *)
(*                                                                         *)
(* The source holds three RunPlanner: "runtime5" (it runs the entrypoint   *)
(* after each step and keeps 5 steps), "runtime" (it runs the entrypoint   *)
(* and keeps every step) and "plain8" (it keeps 8 steps, runs nothing and  *)
(* recovers from a failing close).  A run comes from the chat prompt,      *)
(* where Update makes a new queue and calls RunPlanner itself, or from     *)
(* runPrompt, where a command goroutine calls it on the queue the model    *)
(* holds.                                                                  *)
(***************************************************************************)
Variants == {"runtime5", "runtime", "plain8"}

PlanCapRuntime == 5
PlanCapPlain == 8

InitPlanner ==
    /\ LockAtStart
    /\ lockDir = [i \in Instances |-> ""]
    /\ BuildAtStart
    /\ TrackerAtStart
    /\ disk = [p \in Paths |-> Missing]
    /\ FenceAtStart
    /\ StepBuilderAtStart
    /\ MoreAtStart
    /\ variant \in Variants
    /\ PlannerAtStart

\* "if len(steps) > 5 { steps = steps[:5] }", with 8 in plain8, absent in
\* runtime
PlanCap(v, n) ==
    IF v = "runtime5" /\ n > PlanCapRuntime THEN PlanCapRuntime
    ELSE IF v = "plain8" /\ n > PlanCapPlain THEN PlanCapPlain
    ELSE n

\* the text of a failed run of the entrypoint after step i
RunErr(i) == [kind |-> "Runtime error", step |-> i]

\* "step.Goal += ... Previous runtime error: ..." when PrevRuntimeErr is set
InjectPrev_Never(g, e) == g

InjectPrev(g, e) ==
    IF e = NoErr THEN g ELSE [g EXCEPT !.marker = TRUE, !.text = e]

\* safeSend: a send on the channel the field holds now; on a closed channel
\* it panics and recovers
safeSend(cs, q, r) ==
    [cs EXCEPT ![q].senders = @ \cup {r},
               ![q].late = @ \/ cs[q].closed]

\* close(m.plannerQueue)
closeQueue(cs, q, r) ==
    [cs EXCEPT ![q].closed = TRUE,
               ![q].closers = @ \cup {r},
               ![q].late = @ \/ cs[q].closed]

\* Update is inside the RunPlanner it called
UpdateBusy ==
    \E r \in Runs : site[r] = "chat" /\ rpc[r] \notin {"idle", "returned",
                                                      "crashed"}

\* Update, chat mode, enter: a new queue, then RunPlanner
ChatEnter(r) ==
    /\ rpc[r] = "idle"
    /\ ~UpdateBusy
    /\ plannerQueue' = plannerQueue + 1
    /\ chans' = [chans EXCEPT ![plannerQueue + 1] = NewChan]
    /\ site' = [site EXCEPT ![r] = "chat"]
    /\ rpc' = [rpc EXCEPT ![r] = "plan"]
    /\ UNCHANGED <<variant, planN, stepI, prevErr, result, goal, ranFail,
                   attempts, lastFail, lastSent, genCalls, notPlanner>>

\* runPrompt with the orchestrator selected: the command calls RunPlanner
runPrompt(r) ==
    /\ rpc[r] = "idle"
    /\ ~UpdateBusy
    /\ site' = [site EXCEPT ![r] = "prompt"]
    /\ rpc' = [rpc EXCEPT ![r] = "plan"]
    /\ UNCHANGED <<variant, plannerQueue, chans, planN, stepI, prevErr,
                   result, goal, ranFail, attempts, lastFail, lastSent,
                   genCalls, notPlanner>>

\* a last safeSend, close(m.plannerQueue) and return: closing a closed
\* channel panics, and only plain8 recovers from it
CloseAndReturn(r, res) ==
    /\ chans' = closeQueue(safeSend(chans, plannerQueue, r), plannerQueue, r)
    /\ rpc' = [rpc EXCEPT ![r] =
                  IF chans[plannerQueue].closed /\ variant # "plain8"
                  THEN "crashed" ELSE "returned"]
    /\ result' = [result EXCEPT ![r] = res]

\* RunPlanner up to its loop: n is the number of steps parsed from the
\* answer of the model, -1 when ag.Generate fails
Generate(r, n) ==
    /\ rpc[r] = "plan"
    /\ IF n <= 0
       THEN /\ CloseAndReturn(r, "error")
            /\ UNCHANGED <<planN, stepI, prevErr>>
       ELSE /\ planN' = [planN EXCEPT ![r] = PlanCap(variant, n)]
            /\ stepI' = [stepI EXCEPT ![r] = 1]
            /\ prevErr' = [prevErr EXCEPT ![r] = NoErr]
            /\ chans' = safeSend(chans, plannerQueue, r)
            /\ rpc' = [rpc EXCEPT ![r] = "step"]
            /\ UNCHANGED result
    /\ UNCHANGED <<variant, plannerQueue, site, goal, ranFail, attempts,
                   lastFail, lastSent, genCalls, notPlanner>>

\* the end of one round of the loop: "continue", or the assignment of
\* steps[i+1].PrevRuntimeErr, carry being what the next step gets
Advance_Abort(r, carry) ==
    /\ rpc' = [rpc EXCEPT ![r] = "finish"]
    /\ UNCHANGED <<stepI, prevErr>>

Advance(r, carry) ==
    IF stepI[r] < planN[r]
    THEN /\ stepI' = [stepI EXCEPT ![r] = @ + 1]
         /\ prevErr' = [prevErr EXCEPT ![r] = carry]
         /\ rpc' = [rpc EXCEPT ![r] = "step"]
    ELSE /\ rpc' = [rpc EXCEPT ![r] = "finish"]
         /\ UNCHANGED <<stepI, prevErr>>

\* one round up to RunHeadless(ctx, ag, workspace, step.Goal); RunHeadless
\* calls GenerateWithFiles once and returns its error; ok is whether the
\* call succeeds
RunHeadless(r, ok) ==
    /\ rpc[r] = "step"
    /\ goal' = [goal EXCEPT ![r] =
                  LET g == [step |-> stepI[r], marker |-> FALSE,
                            text |-> NoErr]
                  IN  IF variant = "plain8" THEN g
                      ELSE InjectPrev(g, prevErr[r])]
    /\ attempts' = [attempts EXCEPT ![r] = @ + 1]
    /\ genCalls' = [genCalls EXCEPT ![r] = <<"GenerateWithFiles">>]
    /\ chans' = safeSend(chans, plannerQueue, r)
    /\ IF ~ok
       THEN /\ lastFail' = [lastFail EXCEPT ![r] =
                              [step |-> stepI[r], what |-> "generate"]]
            /\ lastSent' = [lastSent EXCEPT ![r] =
                              [step |-> stepI[r], what |-> "generate"]]
            /\ Advance(r, NoErr)
       ELSE /\ lastSent' = [lastSent EXCEPT ![r] =
                              [step |-> stepI[r], what |-> "actions"]]
            /\ UNCHANGED lastFail
            /\ IF variant = "plain8"
               THEN Advance(r, NoErr)
               ELSE /\ rpc' = [rpc EXCEPT ![r] = "main"]
                    /\ UNCHANGED <<stepI, prevErr>>
    /\ UNCHANGED <<variant, plannerQueue, site, planN, result, ranFail,
                   notPlanner>>

\* findMainFile(workspace): no entrypoint ends the round
findMainFile(r, has) ==
    /\ rpc[r] = "main"
    /\ IF has
       THEN /\ rpc' = [rpc EXCEPT ![r] = "search"]
            /\ UNCHANGED <<stepI, prevErr, chans, lastSent>>
       ELSE /\ chans' = safeSend(chans, plannerQueue, r)
            /\ lastSent' = [lastSent EXCEPT ![r] =
                              [step |-> stepI[r], what |-> "no main file"]]
            /\ Advance(r, NoErr)
    /\ UNCHANGED <<variant, plannerQueue, site, planN, result, goal, ranFail,
                   attempts, lastFail, genCalls, notPlanner>>

\* m.utcp.SearchTools in runtime5, os.ReadFile(entryPath) in runtime: an
\* error ends the round
SearchTools(r, ok) ==
    /\ rpc[r] = "search"
    /\ IF ok
       THEN /\ rpc' = [rpc EXCEPT ![r] = "tool"]
            /\ UNCHANGED <<stepI, prevErr, chans, lastSent, lastFail>>
       ELSE /\ chans' = safeSend(chans, plannerQueue, r)
            /\ lastFail' = [lastFail EXCEPT ![r] =
                              [step |-> stepI[r], what |-> "search"]]
            /\ lastSent' = [lastSent EXCEPT ![r] =
                              [step |-> stepI[r], what |-> "search"]]
            /\ Advance(r, NoErr)
    /\ UNCHANGED <<variant, plannerQueue, site, planN, result, goal, ranFail,
                   attempts, genCalls, notPlanner>>

\* m.utcp.CallTool: the run of the entrypoint, and the assignment of
\* steps[i+1].PrevRuntimeErr
CallTool(r, ok) ==
    /\ rpc[r] = "tool"
    /\ chans' = safeSend(chans, plannerQueue, r)
    /\ IF ok
       THEN /\ lastSent' = [lastSent EXCEPT ![r] =
                              [step |-> stepI[r], what |-> "result"]]
            /\ UNCHANGED <<lastFail, ranFail>>
            /\ Advance(r, NoErr)
       ELSE /\ lastFail' = [lastFail EXCEPT ![r] =
                              [step |-> stepI[r], what |-> "tool"]]
            /\ lastSent' = [lastSent EXCEPT ![r] =
                              [step |-> stepI[r], what |-> "tool"]]
            /\ ranFail' = [ranFail EXCEPT ![r] = RunErr(stepI[r])]
            /\ Advance(r, RunErr(stepI[r]))
    /\ UNCHANGED <<variant, plannerQueue, site, planN, result, goal,
                   attempts, genCalls, notPlanner>>

\* after the loop: "Planner finished", close, return nil
Finish(r) ==
    /\ rpc[r] = "finish"
    /\ CloseAndReturn(r, "nil")
    /\ UNCHANGED <<variant, plannerQueue, site, planN, stepI, prevErr, goal,
                   ranFail, attempts, lastFail, lastSent, genCalls,
                   notPlanner>>

NextPlanner ==
    \/ \E r \in Runs : ChatEnter(r)
    \/ \E r \in Runs : runPrompt(r)
    \/ \E r \in Runs, n \in -1..MaxReturned : Generate(r, n)
    \/ \E r \in Runs, ok \in BOOLEAN : RunHeadless(r, ok)
    \/ \E r \in Runs, has \in BOOLEAN : findMainFile(r, has)
    \/ \E r \in Runs, ok \in BOOLEAN : SearchTools(r, ok)
    \/ \E r \in Runs, ok \in BOOLEAN : CallTool(r, ok)
    \/ \E r \in Runs : Finish(r)

SpecPlanner == InitPlanner /\ [][NextPlanner]_vars

(***************************************************************************)
(* Properties of the planner.                                              *)
(***************************************************************************)
\* C14: when the run of the entrypoint after step i has failed, the goal of
\* step i+1 as passed to RunHeadless holds "Previous runtime error:" and the
\* text of that failure.
C14_RuntimeErrorInNextGoal ==
    \A r \in Runs :
        (ranFail[r] # NoErr /\ goal[r].step = ranFail[r].step + 1) =>
            (goal[r].marker /\ goal[r].text = ranFail[r])

C14_Witness ==
    \E r \in Runs :
        /\ ranFail[r] # NoErr
        /\ goal[r].step = ranFail[r].step + 1
        /\ goal[r].marker

\* a step of r in which a model call, the tool search or the tool run fails
StepFails(r) == lastFail'[r] # lastFail[r]

C16_FallbackToGenerate ==
    [][\A r \in Runs :
          (StepFails(r) /\ lastFail'[r].what = "generate") =>
             genCalls'[r] = <<"GenerateWithFiles", "Generate">>
      ]_vars

\* C20: a planner queue is used by one run only, which sends on it and
\* closes it; nothing is sent on it and it is not closed again after its
\* close; and a run that has returned has closed a queue.
C20_QueueOwnedByOneRun ==
    /\ \A q \in ChanIds :
          /\ Cardinality(chans[q].senders \cup chans[q].closers) <= 1
          /\ ~chans[q].late
    /\ \A r \in Runs :
          rpc[r] = "returned" => \E q \in ChanIds : r \in chans[q].closers

(***************************************************************************)
(* runStepBuilder.                                                         *)
(*                                                                         *)
(* progCh has no buffer: a send on it is the step in which the forwarding  *)
(* goroutine takes the message; the goroutine then hands it to Update with *)
(* m.Program.Send and comes back for the next one.  runStepBuilder calls   *)
(* m.Program.Send itself for the stepBuildCompleteMsg.                     *)
(***************************************************************************)
InitStepBuilder ==
    /\ LockAtStart
    /\ lockDir = [i \in Instances |-> ""]
    /\ BuildAtStart
    /\ TrackerAtStart
    /\ disk = [p \in Paths |-> Missing]
    /\ FenceAtStart
    /\ variant = "runtime5"
    /\ PlannerAtStart
    /\ StepBuilderAtStart
    /\ MoreAtStart

\* a send on progCh
Emit(what, i) ==
    /\ fwdPc = "range"
    /\ progClosed = 0
    /\ fwd = NoMsg
    /\ fwd' = [what |-> what, sub |-> i]

\* buildStepPrompts: n sub-goals parsed from the answer, as many as it
\* holds, or an error (-1), which ends the run with a stepBuildCompleteMsg
buildStepPrompts(n) ==
    /\ sbPc = "split"
    /\ IF n < 0
       THEN /\ sbPc' = "end"
            /\ tuiComplete' = TRUE
            /\ UNCHANGED nSub
       ELSE /\ sbPc' = "summary"
            /\ nSub' = n
            /\ UNCHANGED tuiComplete
    /\ UNCHANGED <<phase, fwd, treeEmitted, lateProgress, notStep>>

\* the summary of the step prompts, then one goroutine for each sub-goal
Summary ==
    /\ sbPc = "summary"
    /\ Emit("summary", 0)
    /\ phase' = [i \in 1..MaxSubgoals |-> IF i <= nSub THEN "ready" ELSE None]
    /\ sbPc' = "wait"
    /\ UNCHANGED <<nSub, treeEmitted, tuiComplete, lateProgress, notStep>>

\* runStepBuilderPhase: its first line, "Step i/n"
SubgoalStart(i) ==
    /\ phase[i] = "ready"
    /\ Emit("phase", i)
    /\ phase' = [phase EXCEPT ![i] = "running"]
    /\ UNCHANGED <<sbPc, nSub, treeEmitted, tuiComplete, lateProgress,
                   notStep>>

\* runStepBuilderPhase: the result of one file, after the workers are done
SubgoalResult(i) ==
    /\ phase[i] = "running"
    /\ Emit("phase", i)
    /\ UNCHANGED <<sbPc, nSub, phase, treeEmitted, tuiComplete, lateProgress,
                   notStep>>

\* runStepBuilderPhase returns an error: "Step i failed"
SubgoalFail(i) ==
    /\ phase[i] = "running"
    /\ Emit("phase", i)
    /\ phase' = [phase EXCEPT ![i] = "done"]
    /\ UNCHANGED <<sbPc, nSub, treeEmitted, tuiComplete, lateProgress,
                   notStep>>

\* runStepBuilderPhase returns nil
SubgoalReturn(i) ==
    /\ phase[i] = "running"
    /\ phase' = [phase EXCEPT ![i] = "done"]
    /\ UNCHANGED <<sbPc, nSub, fwd, treeEmitted, tuiComplete, lateProgress,
                   notStep>>

\* wg.Wait() returns; the final tree view
TreeView ==
    /\ sbPc = "wait"
    /\ \A i \in 1..nSub : phase[i] = "done"
    /\ Emit("tree", 0)
    /\ treeEmitted' = TRUE
    /\ sbPc' = "bye"
    /\ UNCHANGED <<nSub, phase, tuiComplete, lateProgress, notStep>>

\* "Auto StepBuild complete!"
Bye ==
    /\ sbPc = "bye"
    /\ Emit("bye", 0)
    /\ sbPc' = "complete"
    /\ UNCHANGED <<nSub, phase, treeEmitted, tuiComplete, lateProgress,
                   notStep>>

\* m.Program.Send(stepBuildCompleteMsg{}), received by Update
Complete ==
    /\ sbPc = "complete"
    /\ tuiComplete' = TRUE
    /\ sbPc' = "end"
    /\ UNCHANGED <<nSub, phase, fwd, treeEmitted, lateProgress, notStep>>

\* what Forward leaves alone outside the step builder
forwardFrame == <<lockVars, buildVars, trackerVars, fenceVars, plannerVars,
                  restForwarder>>

\* the forwarding goroutine: m.Program.Send(msg), received by Update, and
\* back to the head of its range over progCh, which ends on a closed channel
\* and runs the deferred close(progCh)
Forward ==
    /\ fwdPc = "range"
    /\ fwd # NoMsg
    /\ fwd' = NoMsg
    /\ lateProgress' = (lateProgress \/ tuiComplete)
    /\ IF progClosed > 0
       THEN /\ fwdPc' = "exited"
            /\ progClosed' = progClosed + 1
       ELSE UNCHANGED <<fwdPc, progClosed>>
    /\ UNCHANGED <<sbPc, nSub, phase, treeEmitted, tuiComplete, forwardFrame>>

NextStepBuilder ==
    \/ \E n \in -1..MaxSubgoals : buildStepPrompts(n)
    \/ Summary
    \/ \E i \in 1..MaxSubgoals : SubgoalStart(i)
    \/ \E i \in 1..MaxSubgoals : SubgoalResult(i)
    \/ \E i \in 1..MaxSubgoals : SubgoalFail(i)
    \/ \E i \in 1..MaxSubgoals : SubgoalReturn(i)
    \/ TreeView
    \/ Bye
    \/ Complete
    \/ Forward

SpecStepBuilder == InitStepBuilder /\ [][NextStepBuilder]_vars

(***************************************************************************)
(* Properties of runStepBuilder.                                           *)
(***************************************************************************)
\* C17: no more than 8 sub-goals are run, whatever number the model returns.
C17_AtMostEightSubgoals ==
    Cardinality({i \in 1..MaxSubgoals : phase[i] # None}) <= PlanCapPlain

\* C18: a progress event of sub-goal i is sent only while no sub-goal after
\* i has sent one.
C18_ProgressInPlanOrder ==
    [][(fwd = NoMsg /\ fwd' # NoMsg /\ fwd'.sub > 0) =>
          \A j \in (fwd'.sub + 1)..nSub : phase[j] = "ready"
      ]_vars

\* C19: the completion event is sent after the sub-goals are done and the
\* final tree view was sent, and Update receives no progress message of the
\* run after the completion event.
C19_CompleteIsTerminal ==
    /\ (tuiComplete /\ nSub > 0) =>
          (treeEmitted /\ \A i \in 1..nSub : phase[i] = "done")
    /\ ~lateProgress

(***************************************************************************)
(* The transcript file: persistTranscript, readTranscriptCmd and the       *)
(* transcriptTickMsg / transcriptSyncMsg cases of Update.                  *)
(*                                                                         *)
(* A line of the transcript is the number of the instance that appended    *)
(* it.  The command readTranscriptCmd returns runs in a goroutine of its   *)
(* own; its message is handled by Update later, and Update may handle      *)
(* other messages in between.  One poll per instance is under way at a     *)
(* time.                                                                   *)
(***************************************************************************)
InitTranscript ==
    /\ BesideTranscript
    /\ TranscriptAtStart

Line(i) == IF i = "i1" THEN 1 ELSE 2

\* sha256 of the content, in hexadecimal: equal for equal contents only,
\* and never the empty string
hashString(s) == <<"sha256", s>>

\* transcriptTickMsg and the command it starts: os.ReadFile(path)
readTranscriptCmd(i, ok) ==
    /\ syncMsg[i] = NoSync
    /\ syncMsg' = [syncMsg EXCEPT ![i] =
          IF ~ok THEN [err |-> "other", content |-> Nil, checksum |-> Nil]
          ELSE IF tfile = Missing
          THEN [err |-> "notexist", content |-> Nil, checksum |-> Nil]
          ELSE [err |-> None, content |-> tfile,
                checksum |-> hashString(tfile)]]
    /\ UNCHANGED <<tfile, tOutput, lastTranscriptSig, quiet, lastWriter,
                   writeFailed, notTranscript>>

\* persistTranscript, with m.output = out: the file and the hash change
\* together, and neither changes when os.WriteFile fails
persistTranscript(i, out, ok) ==
    /\ tfile' = IF ok THEN out ELSE tfile
    /\ lastTranscriptSig' =
          IF ok THEN [lastTranscriptSig EXCEPT ![i] = hashString(out)]
          ELSE lastTranscriptSig
    /\ lastWriter' = IF ok THEN i ELSE lastWriter
    /\ writeFailed' = (writeFailed \/ ~ok)

\* Update, transcriptSyncMsg
TranscriptSync(i, ok) ==
    LET msg == syncMsg[i]
    IN  /\ msg # NoSync
        /\ syncMsg' = [syncMsg EXCEPT ![i] = NoSync]
        /\ IF msg.err = "notexist"
           THEN /\ persistTranscript(i, tOutput[i], ok)
                /\ UNCHANGED tOutput
           ELSE IF msg.err # None
           THEN UNCHANGED <<tfile, tOutput, lastTranscriptSig, lastWriter,
                            writeFailed>>
           ELSE IF msg.checksum # lastTranscriptSig[i]
           THEN /\ tOutput' = [tOutput EXCEPT ![i] = msg.content]
                /\ lastTranscriptSig' =
                      [lastTranscriptSig EXCEPT ![i] = msg.checksum]
                /\ UNCHANGED <<tfile, lastWriter, writeFailed>>
           ELSE UNCHANGED <<tfile, tOutput, lastTranscriptSig, lastWriter,
                            writeFailed>>
        /\ UNCHANGED <<quiet, notTranscript>>

\* Update, the cases that append to m.output and call renderOutput(true)
LocalChange(i, ok) ==
    /\ ~quiet
    /\ Len(tOutput[i]) < MaxTranscript
    /\ tOutput' = [tOutput EXCEPT ![i] = Append(@, Line(i))]
    /\ persistTranscript(i, tOutput'[i], ok)
    /\ UNCHANGED <<syncMsg, quiet, notTranscript>>

\* from here on no instance makes a local change
Quiet ==
    /\ ~quiet
    /\ quiet' = TRUE
    /\ UNCHANGED <<tfile, tOutput, lastTranscriptSig, syncMsg, lastWriter,
                   writeFailed, notTranscript>>

NextTranscript ==
    \/ \E i \in Instances, ok \in BOOLEAN : readTranscriptCmd(i, ok)
    \/ \E i \in Instances, ok \in BOOLEAN : TranscriptSync(i, ok)
    \/ \E i \in Instances, ok \in BOOLEAN : LocalChange(i, ok)
    \/ Quiet

SpecTranscript == InitTranscript /\ [][NextTranscript]_vars

\* the tick is scheduled again by every tick, a read that fails is tried
\* again at the next tick, and Update handles every message it is sent
SpecTranscriptFair ==
    /\ SpecTranscript
    /\ \A i \in Instances :
          /\ SF_vars(readTranscriptCmd(i, TRUE))
          /\ WF_vars(\E ok \in BOOLEAN : TranscriptSync(i, ok))

(***************************************************************************)
(* Properties of the transcript poll.                                      *)
(***************************************************************************)
\* C21: when an instance handles the result of a poll and it is the one
\* that wrote the transcript file last, its transcript and its last
\* observed hash stay as they are.
C21_OwnPollIsNoOp ==
    [][\A i \in Instances :
          (syncMsg[i] # NoSync /\ syncMsg'[i] = NoSync /\ lastWriter = i) =>
              /\ tOutput'[i] = tOutput[i]
              /\ lastTranscriptSig'[i] = lastTranscriptSig[i]
      ]_vars

Consistent == \A i \in Instances : tOutput[i] = tfile

\* C22: once the instances have stopped making local changes, the
\* transcript of every instance is eventually, and from then on, the
\* content of the transcript file.
C22_EventuallyConsistent == quiet ~> []Consistent

(***************************************************************************)
(* buildCodebaseContext: the loop that selects the files under the caps    *)
(* and the loop that writes their sections.                                *)
(***************************************************************************)
InitContext ==
    /\ BesideContext
    /\ entries \in UNION {[1..n -> 0..MaxSize] : n \in 0..MaxEntries}
    /\ maxFiles \in 0..MaxCap
    /\ maxTotalBytes \in 0..MaxCap
    /\ perFileLimit \in 0..MaxCap
    /\ included = <<>>
    /\ total = 0
    /\ bodies = <<>>
    /\ cpc = "select"

Min(a, b) == IF a < b THEN a ELSE b

\* "for _, e := range entries": one round, with its two breaks
Select ==
    /\ cpc = "select"
    /\ LET k == Len(included) + 1
       IN  IF \/ k > Len(entries)
              \/ Len(included) >= maxFiles
              \/ total >= maxTotalBytes
           THEN /\ cpc' = "read"
                /\ UNCHANGED <<included, total>>
           ELSE /\ included' = Append(included, k)
                /\ total' = total + Min(entries[k], perFileLimit)
                /\ UNCHANGED cpc
    /\ UNCHANGED <<entries, maxFiles, maxTotalBytes, perFileLimit, bodies,
                   notContext>>

\* "for _, f := range included": os.ReadFile returns what the file holds
\* by now (n bytes), cut to perFileLimit
ReadSection(n) ==
    /\ cpc = "read"
    /\ Len(bodies) < Len(included)
    /\ bodies' = Append(bodies, Min(n, perFileLimit))
    /\ UNCHANGED <<entries, maxFiles, maxTotalBytes, perFileLimit, included,
                   total, cpc, notContext>>

\* return out.String(), len(included), total
ReturnContext ==
    /\ cpc = "read"
    /\ Len(bodies) = Len(included)
    /\ cpc' = "done"
    /\ UNCHANGED <<entries, maxFiles, maxTotalBytes, perFileLimit, included,
                   total, bodies, notContext>>

NextContext ==
    \/ Select
    \/ \E n \in 0..MaxSize : ReadSection(n)
    \/ ReturnContext

SpecContext == InitContext /\ [][NextContext]_vars

\* C23: the returned snapshot has at most maxFiles files and a byte total
\* of at most maxTotalBytes, and no file section has a body longer than
\* perFileLimit.
C23_SnapshotWithinCaps ==
    cpc = "done" =>
        /\ Len(included) <= maxFiles
        /\ total <= maxTotalBytes
        /\ \A k \in 1..Len(bodies) : bodies[k] <= perFileLimit

(***************************************************************************)
(* extractJSON.                                                            *)
(*                                                                         *)
(* An answer is a sequence of tokens, white space left out: the four       *)
(* brackets, the comma, "v" for a scalar of JSON (inside an object: a      *)
(* member with a scalar value), "b" for a string atom in backticks, "w"    *)
(* for a word of prose and "<fence>" for a fence line, with or without     *)
(* the json tag.                                                           *)
(***************************************************************************)
Tokens == {"[", "]", "{", "}", ",", "v", "b", "w", "<fence>"}
Opening == {"[", "{"}
Closing == {"]", "}"}
Closes(o, c) == (o = "[" /\ c = "]") \/ (o = "{" /\ c = "}")

InitJson ==
    /\ BesideJson
    /\ raw \in UNION {[1..n -> Tokens] : n \in 0..MaxInput}
    /\ extracted = NotExtracted

\* strings.IndexAny, from position i on: 0 if there is none
RECURSIVE IndexFrom(_, _, _)
IndexFrom(s, i, set) ==
    IF i > Len(s) THEN 0
    ELSE IF s[i] \in set THEN i
    ELSE IndexFrom(s, i + 1, set)

\* strings.LastIndexAny
RECURSIVE LastIndexAny(_, _, _)
LastIndexAny(s, i, set) ==
    IF i < 1 THEN 0
    ELSE IF s[i] \in set THEN i
    ELSE LastIndexAny(s, i - 1, set)

\* jsonRe at a fence at i: the group starts at the bracket right after the
\* fence and ends at the first closing bracket, after the first token of
\* the group, that a fence follows; 0 if there is none
RECURSIVE GroupEnd(_, _)
GroupEnd(s, j) ==
    IF j + 1 > Len(s) THEN 0
    ELSE IF s[j] \in Closing /\ s[j + 1] = "<fence>" THEN j
    ELSE GroupEnd(s, j + 1)

\* jsonRe.FindStringSubmatch: the leftmost fence with a match
RECURSIVE FindFenced(_, _)
FindFenced(s, i) ==
    IF i + 3 > Len(s) THEN <<>>
    ELSE IF /\ s[i] = "<fence>"
            /\ s[i + 1] \in Opening
            /\ GroupEnd(s, i + 2) # 0
    THEN SubSeq(s, i + 1, GroupEnd(s, i + 2))
    ELSE FindFenced(s, i + 1)

\* trailingArrayComma / trailingObjectComma .ReplaceAllString: a comma that
\* the bracket follows goes
RECURSIVE DropCommaBefore(_, _)
DropCommaBefore(s, c) ==
    IF s = <<>> THEN <<>>
    ELSE IF Len(s) >= 2 /\ s[1] = "," /\ s[2] = c
    THEN DropCommaBefore(Tail(s), c)
    ELSE <<Head(s)>> \o DropCommaBefore(Tail(s), c)

\* backtickStringRe.ReplaceAllString: an atom in backticks gets double quotes
Requote(s) == [k \in 1..Len(s) |-> IF s[k] = "b" THEN "v" ELSE s[k]]

extractJSON(s) ==
    LET fenced == FindFenced(s, 1)
        start == IndexFrom(s, 1, Opening)
        end == LastIndexAny(s, Len(s), Closing)
        candidate == IF fenced # <<>> THEN fenced ELSE SubSeq(s, start, end)
        jsonStr == Requote(DropCommaBefore(DropCommaBefore(candidate, "]"),
                                           "}"))
    IN  IF fenced = <<>> /\ (start = 0 \/ end = 0 \/ end < start)
        THEN [err |-> "no JSON object or array found", out |-> <<>>]
        ELSE [err |-> "nil", out |-> jsonStr]

\* the call
ExtractJSON ==
    /\ extracted = NotExtracted
    /\ extracted' = extractJSON(raw)
    /\ UNCHANGED <<raw, notJson>>

NextJson == ExtractJSON

SpecJson == InitJson /\ [][NextJson]_vars

(***************************************************************************)
(* What json.Unmarshal accepts as an array or object, over the tokens:     *)
(* a walk with the stack of the open brackets.  With lenient, a comma      *)
(* before a closing bracket and atoms in backticks are accepted as well.   *)
(***************************************************************************)
RECURSIVE Walk(_, _, _, _, _)
Walk(s, i, stack, st, lenient) ==
    IF i > Len(s) THEN st = "end"
    ELSE LET t == s[i]
         IN  IF st = "end" THEN FALSE
             ELSE IF t \in Opening
             THEN /\ st \in {"start", "first", "value"}
                  /\ Walk(s, i + 1, <<t>> \o stack, "first", lenient)
             ELSE IF t = "v" \/ (lenient /\ t = "b")
             THEN /\ st \in {"first", "value"}
                  /\ Walk(s, i + 1, stack, "after", lenient)
             ELSE IF t = ","
             THEN /\ st = "after"
                  /\ Walk(s, i + 1, stack, "value", lenient)
             ELSE IF t \in Closing
             THEN /\ st \in {"first", "after"} \/ (lenient /\ st = "value")
                  /\ stack # <<>>
                  /\ Closes(Head(stack), t)
                  /\ Walk(s, i + 1, Tail(stack),
                          IF Tail(stack) = <<>> THEN "end" ELSE "after",
                          lenient)
             ELSE FALSE

ParsesAsJSON(s) == Walk(s, 1, <<>>, "start", FALSE)

\* the answer holds a JSON array or object, fenced or not
ContainsJSON(s) ==
    \E i, j \in 1..Len(s) :
        i < j /\ Walk(SubSeq(s, i, j), 1, <<>>, "start", TRUE)

\* C24: for an answer that holds a JSON array or object, with or without
\* fence, trailing commas and atoms in backticks, extractJSON returns
\* bytes that parse as JSON; for an answer that holds none it returns an
\* error.
C24_ExtractorTotal ==
    extracted # NotExtracted =>
        IF ContainsJSON(raw)
        THEN extracted.err = "nil" /\ ParsesAsJSON(extracted.out)
        ELSE extracted.err # "nil"

(***************************************************************************)
(* Properties of the release function of acquireDirLock.                   *)
(***************************************************************************)
\* C25: when a caller whose lock was removed under it (reclaimed as stale)
\* calls its release function while the path is locked by another caller,
\* the lock directory of that caller stays in place.
C25_ReleaseOnlyOwnLock ==
    [][\A g \in Callers :
          (/\ pc[g] = "return" /\ pc'[g] = "done"
           /\ release[g] /\ lost[g]
           /\ dirExists /\ dirOwner \notin {g, None} /\ release[dirOwner])
          => (dirExists' /\ dirOwner' = dirOwner)]_vars

(***************************************************************************)
(* The planner queue in chat mode: Update (enter in ModeChat), safeSend,   *)
(* RunPlanner's close and Update (plannerTickMsg).                         *)
(*                                                                         *)
(* Update calls RunPlanner itself, so the whole run, close included, takes *)
(* place inside the handler of the prompt and no other message is handled  *)
(* before it returns.  Line k of the run of prompt r is <<r, k>>.          *)
(***************************************************************************)
\* make(chan string, 64)
QueueCap == 64

InitQueue ==
    /\ BesideQueue
    /\ QueueAtStart

\* enter in ModeChat: a new queue, then RunPlanner(...) for a run of n lines
ChatPrompt(r, n) ==
    /\ running = 0
    /\ nLines[r] = 0
    /\ \A p \in ChatPrompts : p < r => p \in returned
    /\ qbuf' = <<>>
    /\ qclosed' = FALSE
    /\ qrun' = r
    /\ running' = r
    /\ nLines' = [nLines EXCEPT ![r] = n]
    /\ sentK' = 0
    /\ UNCHANGED <<ticks, chatLog, returned, seenClosed, notQueue>>

\* safeSend: "select { case m.plannerQueue <- line: default: }"
QueueSend ==
    /\ running # 0
    /\ sentK < nLines[running]
    /\ sentK' = sentK + 1
    /\ qbuf' = IF Len(qbuf) < QueueCap /\ ~qclosed
               THEN Append(qbuf, <<running, sentK + 1>>)
               ELSE qbuf
    /\ UNCHANGED <<qclosed, qrun, running, nLines, ticks, chatLog, returned,
                   seenClosed, notQueue>>

\* close(m.plannerQueue); RunPlanner returns and Update asks for a tick
QueueClose ==
    /\ running # 0
    /\ sentK = nLines[running]
    /\ qclosed' = TRUE
    /\ returned' = returned \cup {running}
    /\ running' = 0
    /\ ticks' = ticks + 1
    /\ UNCHANGED <<qbuf, qrun, nLines, sentK, chatLog, seenClosed, notQueue>>

\* plannerTickMsg: the buffer is appended to m.output; a closed queue ends
\* the ticks, an open one asks for the next
PlannerTick ==
    /\ running = 0
    /\ ticks > 0
    /\ chatLog' = chatLog \o qbuf
    /\ qbuf' = <<>>
    /\ seenClosed' = qclosed
    /\ ticks' = IF qclosed THEN ticks - 1 ELSE ticks
    /\ UNCHANGED <<qclosed, qrun, running, nLines, sentK, returned, notQueue>>

NextQueue ==
    \/ \E r \in ChatPrompts, n \in 1..MaxLines : ChatPrompt(r, n)
    \/ QueueSend
    \/ QueueClose
    \/ PlannerTick

SpecQueue == InitQueue /\ [][NextQueue]_vars

\* the lines of the run of prompt r, in the order they were sent
SentBy(r) == [k \in 1..nLines[r] |-> <<r, k>>]
\* the lines of the run of prompt r in the transcript
IsOf(l, r) == l[1] = r
LoggedOf(r) == SelectSeq(chatLog, LAMBDA l : IsOf(l, r))

\* C26: when Update finds the planner queue closed, every line of every run
\* that has returned is in the transcript, once and in the order of the
\* sends.
C26_NoLineDropped ==
    seenClosed => \A r \in returned : LoggedOf(r) = SentBy(r)

(***************************************************************************)
(* WriteCodeBlocks called by several goroutines (the RunPlanner runs of    *)
(* two prompts, each through RunHeadless).  The tracker's mutex is held    *)
(* inside Snapshot and inside Record only; os.WriteFile is between them,   *)
(* outside of any lock.  Each call has one fence; os.MkdirAll succeeds.    *)
(***************************************************************************)
InitWriters ==
    /\ BesideWriters
    /\ WritersAtStart

\* what the calls leave alone
writersFrame == <<lockVars, buildVars, blocks, actions, snap, lastRec, known,
                 io, lastFence, same, fenceVars, plannerVars, stepVars,
                 restWriters>>

\* WriteCodeBlocks(root, response): BeginPrompt, one fence extracted
MwBegin(w, f) ==
    /\ mwPc[w] = "idle"
    /\ seqno < MaxPrompts
    /\ seqno' = seqno + 1
    /\ mwFence' = [mwFence EXCEPT ![w] = f]
    /\ mwPc' = [mwPc EXCEPT ![w] = "snapshot"]
    /\ overlapped' = (overlapped \/ \E v \in Materializers : mwPc[v] # "idle")
    /\ UNCHANGED <<prev, disk, mwOld, written, writersFrame>>

\* oldB := GlobalChanges.Snapshot(root, path)
MwSnapshot(w) ==
    /\ mwPc[w] = "snapshot"
    /\ mwOld' = [mwOld EXCEPT ![w] = SnapshotResult(prev, mwFence[w].path)]
    /\ prev' = SnapshotPrev(prev, mwFence[w].path)
    /\ mwPc' = [mwPc EXCEPT ![w] =
                  IF Status(mwOld'[w], mwFence[w].body) = "unchanged"
                  THEN "record" ELSE "write"]
    /\ UNCHANGED <<seqno, disk, mwFence, written, overlapped, writersFrame>>

\* os.WriteFile(abs, newB, 0o644); on an error the round ends without Record
MwWriteFile(w, ok) ==
    /\ mwPc[w] = "write"
    /\ IF ok
       THEN /\ disk' = [disk EXCEPT ![mwFence[w].path] = mwFence[w].body]
            /\ written' = written \cup {mwFence[w].path}
            /\ mwPc' = [mwPc EXCEPT ![w] = "record"]
       ELSE /\ mwPc' = [mwPc EXCEPT ![w] = "idle"]
            /\ UNCHANGED <<disk, written>>
    /\ UNCHANGED <<seqno, prev, mwFence, mwOld, overlapped, writersFrame>>

\* GlobalChanges.Record(path, newB); return actions, nil
MwRecord(w) ==
    /\ mwPc[w] = "record"
    /\ prev' = RecordPrev(prev, mwFence[w].path, mwFence[w].body)
    /\ mwPc' = [mwPc EXCEPT ![w] = "idle"]
    /\ UNCHANGED <<seqno, disk, mwFence, mwOld, written, overlapped,
                   writersFrame>>

NextWriters ==
    \/ \E w \in Materializers, f \in Fences : MwBegin(w, f)
    \/ \E w \in Materializers : MwSnapshot(w)
    \/ \E w \in Materializers, ok \in BOOLEAN : MwWriteFile(w, ok)
    \/ \E w \in Materializers : MwRecord(w)

SpecWriters == InitWriters /\ [][NextWriters]_vars

\* the bytes a value of t.prev stands for (a nil slice has none)
Content(b) == IF b = Nil THEN <<>> ELSE b

\* C27: when no materialization is under way, the content the tracker has
\* recorded for every written path is the content of the file on disk.
C27_TrackerMatchesDisk ==
    (\A w \in Materializers : mwPc[w] = "idle") =>
        \A p \in written : Content(prev[p]) = disk[p]

(***************************************************************************)
(* Where a fence is written: extractPathAndStrip / extractExplicitPath and *)
(* filepath.Join(root, path) in WriteCodeBlocks and saveCodeBlocks.        *)
(*                                                                         *)
(* A path is the sequence of its segments between slashes: "" before the   *)
(* leading slash of an absolute path, ".", ".." and names.  A fence        *)
(* without directive has the empty sequence.                               *)
(***************************************************************************)
Segments == {"", ".", "..", "a"}
Roots == {<<"w">>, <<"w", "s">>}

InitPath ==
    /\ BesidePath
    /\ wroot \in Roots
    /\ directive \in UNION {[1..n -> Segments] : n \in 0..MaxSegs}
    /\ target = <<>>
    /\ via = None

\* filepath.Clean of a rooted path: "" and "." go, ".." takes the segment
\* before it with it and goes alone at the root
RECURSIVE Clean(_, _)
Clean(done, rest) ==
    IF rest = <<>> THEN done
    ELSE IF Head(rest) \in {"", "."} THEN Clean(done, Tail(rest))
    ELSE IF Head(rest) = ".."
    THEN Clean(IF done = <<>> THEN <<>> ELSE SubSeq(done, 1, Len(done) - 1),
               Tail(rest))
    ELSE Clean(Append(done, Head(rest)), Tail(rest))

\* filepath.Join(root, path)
Join(root, path) == Clean(<<>>, root \o path)

\* s starts with r
IsPrefix(r, s) == Len(r) <= Len(s) /\ SubSeq(s, 1, Len(r)) = r

\* os.WriteFile fails on the root and on the directories above it
WriteFails(root, abs) == IsPrefix(abs, root)

\* WriteCodeBlocks: the directive's path, or generated/file_i.ext
WritePath ==
    /\ via = None
    /\ target' = Join(wroot, IF directive = <<>>
                             THEN <<"generated", "file_1.go">>
                             ELSE directive)
    /\ via' = IF WriteFails(wroot, target') THEN "error"
              ELSE "WriteCodeBlocks"
    /\ UNCHANGED <<wroot, directive, notPath>>

\* saveCodeBlocks: the explicit path (without one the file goes to a
\* directory of the workspace under a guessed name)
SavePath ==
    /\ via = None
    /\ target' = IF directive = <<>>
                 THEN Join(wroot, <<"file_1.go">>)
                 ELSE Join(wroot, directive)
    /\ via' = IF WriteFails(wroot, target') THEN "error"
              ELSE "saveCodeBlocks"
    /\ UNCHANGED <<wroot, directive, notPath>>

NextPath ==
    \/ WritePath
    \/ SavePath

SpecPath == InitPath /\ [][NextPath]_vars

\* C28: every file that is written is inside the workspace root, whatever
\* the path of the directive, absolute paths and paths with ".." included.
C28_WritesInsideRoot ==
    via \in {"WriteCodeBlocks", "saveCodeBlocks"} => IsPrefix(wroot, target)

(***************************************************************************)
(* The thinking flag of the chat view.  Enter in chat mode sets            *)
(* m.isThinking and makes a new planner queue; what resets the flag is a   *)
(* generateMsg (the result of a UTCP command) or a plannerTickMsg that     *)
(* finds the queue closed.  RunPlanner runs inside Update and has closed   *)
(* the queue when it returns.                                              *)
(***************************************************************************)

InitChat == BesideChat /\ ChatAtStart

\* The @utcp payloads Update turns away: nothing after "@utcp ", text that
\* is not JSON, JSON without a tool name
Rejected == {"no payload", "invalid JSON", "no tool"}

\* The @utcp payloads that start a command
UTCPCalls == {"call", "stream"}

\* The ways RunPlanner ends: Generate failed, no step parsed, plan run
PlannerEnds == {"planner failed", "no steps", "finished"}

\* The lines RunPlanner has sent when it closes the queue
PlannerLines(how) ==
    IF how = "finished" THEN 2..MaxPlanLines ELSE {1}

\* Update, enter in ModeChat with a non-empty prompt
SubmitChat(how) ==
    /\ nChat < MaxChat
    /\ nChat' = nChat + 1
    /\ chatPath' = how
    /\ isThinking' = TRUE
    /\ IF how \in Rejected
       THEN /\ chatLabel' = "thinking"
            /\ cqLines' = 0
            /\ cqClosed' = FALSE
            /\ UNCHANGED <<calls, tickMsgs>>
       ELSE IF how \in UTCPCalls
       THEN /\ chatLabel' = "calling UTCP tool"
            /\ cqLines' = 0
            /\ cqClosed' = FALSE
            /\ calls' = calls + 1
            /\ UNCHANGED tickMsgs
       ELSE /\ chatLabel' = "thinking"
            /\ cqLines' \in PlannerLines(how)
            /\ cqClosed' = TRUE
            /\ tickMsgs' = tickMsgs + 1
            /\ UNCHANGED calls
    /\ UNCHANGED <<genMsgs, notChat>>

\* callUTCP, callUTCPStream: the command returns a generateMsg, with the
\* result or with the error
CallReturns ==
    /\ calls > 0
    /\ calls' = calls - 1
    /\ genMsgs' = genMsgs + 1
    /\ UNCHANGED <<isThinking, chatLabel, chatPath, nChat, tickMsgs,
                   cqLines, cqClosed, notChat>>

\* Update, case generateMsg
HandleGenerate ==
    /\ genMsgs > 0
    /\ genMsgs' = genMsgs - 1
    /\ isThinking' = FALSE
    /\ UNCHANGED <<chatLabel, chatPath, nChat, calls, tickMsgs, cqLines,
                   cqClosed, notChat>>

\* Update, case plannerTickMsg: the buffered lines are taken; a closed queue
\* ends the thinking state, an open one schedules the next tick
HandleTick ==
    /\ tickMsgs > 0
    /\ cqLines' = 0
    /\ IF cqClosed
       THEN /\ tickMsgs' = tickMsgs - 1
            /\ isThinking' = FALSE
            /\ chatLabel' = ""
       ELSE UNCHANGED <<tickMsgs, isThinking, chatLabel>>
    /\ UNCHANGED <<chatPath, nChat, calls, genMsgs, cqClosed, notChat>>

NextChat ==
    \/ \E how \in Rejected \cup UTCPCalls \cup PlannerEnds : SubmitChat(how)
    \/ CallReturns
    \/ HandleGenerate
    \/ HandleTick

SpecChat == InitChat /\ [][NextChat]_vars

\* Commands run to their end and Update handles every message it is sent;
\* the user is free to stop typing
SpecChatFair ==
    /\ SpecChat
    /\ WF_vars(CallReturns)
    /\ WF_vars(HandleGenerate)
    /\ WF_vars(HandleTick)

\* C29: after every prompt submitted in chat mode the thinking flag returns
\* to false without further input, on every path: a rejected @utcp payload,
\* a UTCP call, a planner failure, a planner run that closes its queue
C29_ThinkingEnds == isThinking ~> ~isThinking

\* the goroutines run to their ends
SpecStepBuilderFair == SpecStepBuilder /\ WF_vars(NextStepBuilder)

\* the goroutines of the sub-goals have returned
SubgoalsDone == \A i \in 1..MaxSubgoals : phase[i] \in {None, "done"}

\* C30: once the run has sent its completion event, after a failed split
\* as after a full run, every goroutine it started ends: the sub-goals have
\* returned, the forwarding goroutine exits, and progCh has been closed
\* exactly once
C30_GoroutinesEnd ==
    tuiComplete ~> (SubgoalsDone /\ fwdPc = "exited" /\ progClosed = 1)

====
